---------------------------- MODULE Spec2Model ----------------------------
(***************************************************************************)
(* Campaign Media Tree Manager (src/App.py): the metadata document         *)
(* (campaign -> ad sets -> ads), its persisted copy in META_FILE, the      *)
(* media files, and the operations of MediaTreeManager and of main() that  *)
(* change them.                                                            *)
(*                                                                         *)
(* Representation.  A Python str is a sequence of one-character strings,   *)
(* so that strip() and the other text operations are computed, not         *)
(* assumed.  A Python dict is a function; its keys are strs (ad set names, *)
(* ad ids) or field names (TLA+ strings).  A timestamp is the reading of   *)
(* a clock `now`, stored as the text isoformat() makes of it.              *)
(***************************************************************************)
EXTENDS Integers, Sequences, FiniteSets, TLC

(***************************************************************************)
(* Bounds of the model.                                                    *)
(***************************************************************************)
\* most ad sets the in-memory document holds
MaxAdSets == 3
\* most ads the in-memory document holds, all ad sets together
MaxAds == 5
\* last reading of the clock
MaxTime == 1

(***************************************************************************)
(* Text of the default document, get_default_metadata (App.py:73-130).     *)
(***************************************************************************)
\* 'Social Media Ads' (App.py:82)
SOCIAL_MEDIA_ADS ==
  <<"S","o","c","i","a","l"," ","M","e","d","i","a"," ","A","d","s">>

\* 'Google Ads' (App.py:111)
GOOGLE_ADS ==
  <<"G","o","o","g","l","e"," ","A","d","s">>

\* 'image/jpeg' (App.py:96)
IMAGE_JPEG ==
  <<"i","m","a","g","e","/","j","p","e","g">>

\* 'video/mp4' (App.py:107)
VIDEO_MP4 ==
  <<"v","i","d","e","o","/","m","p","4">>

\* 'image/png' (App.py:125)
IMAGE_PNG ==
  <<"i","m","a","g","e","/","p","n","g">>

(***************************************************************************)
(* Python values.                                                          *)
(***************************************************************************)
\* Python's None: a token no str equals (a str holds single characters)
None == <<"<None>">>

\* the empty dict {}
EmptyDict == [k \in {} |-> <<>>]

\* d[k] = v
DictSet(d, k, v) == [x \in DOMAIN d \cup {k} |-> IF x = k THEN v ELSE d[x]]

\* del d[k], and d.pop(k), for a key that is present
DictDel(d, k) == [x \in DOMAIN d \ {k} |-> d[x]]

\* d.update(u)
DictUpdate(d, u) ==
  [x \in DOMAIN d \cup DOMAIN u |-> IF x \in DOMAIN u THEN u[x] ELSE d[x]]

\* the characters str.strip() removes
WHITESPACE == {" ", "\t", "\n", "\r"}

RECURSIVE lstrip(_)
lstrip(s) == IF s # <<>> /\ Head(s) \in WHITESPACE THEN lstrip(Tail(s)) ELSE s

RECURSIVE rstrip(_)
rstrip(s) ==
  IF s # <<>> /\ s[Len(s)] \in WHITESPACE
  THEN rstrip(SubSeq(s, 1, Len(s) - 1))
  ELSE s

\* str.strip()
strip(s) == rstrip(lstrip(s))

DIGITS == <<"0", "1", "2", "3", "4", "5", "6", "7", "8", "9">>

\* datetime.datetime.now().isoformat() when the clock reads t: one text per
\* reading of the clock
isoformat(t) ==
  <<"2","0","2","5","-","0","9","-","0","1","T","0","0",":","0","0",":","0">>
    \o <<DIGITS[t + 1]>>

(***************************************************************************)
(* The document.                                                           *)
(***************************************************************************)
DEMO001 == <<"d","e","m","o","0","0","1">>
DEMO002 == <<"d","e","m","o","0","0","2">>
DEMO003 == <<"d","e","m","o","0","0","3">>

get_default_metadata(t) ==
  LET
    \* 'Summer Product Launch' (App.py:77)
    CAMPAIGN_NAME ==
      <<"S","u","m","m","e","r"," ","P","r","o","d","u","c","t"," ","L","a","u","n","c","h">>
    \* 'Increase brand awareness and drive sales for our new summer collection' (App.py:78)
    CAMPAIGN_OBJECTIVE ==
      <<"I","n","c","r","e","a","s","e"," ","b","r","a","n","d"," ","a","w","a","r","e","n","e","s","s"," ","a","n","d"," ","d","r","i","v","e"," ","s","a","l","e","s"," ","f","o","r"," ","o","u","r"," ","n","e","w"," ","s","u","m","m","e","r"," ","c","o","l","l","e","c","t","i","o","n">>
    \* 'Ads for Facebook, Instagram, and Twitter' (App.py:84)
    SOCIAL_MEDIA_ADS_DESC ==
      <<"A","d","s"," ","f","o","r"," ","F","a","c","e","b","o","o","k",","," ","I","n","s","t","a","g","r","a","m",","," ","a","n","d"," ","T","w","i","t","t","e","r">>
    \* 'Search and display ads for Google Ads platform' (App.py:113)
    GOOGLE_ADS_DESC ==
      <<"S","e","a","r","c","h"," ","a","n","d"," ","d","i","s","p","l","a","y"," ","a","d","s"," ","f","o","r"," ","G","o","o","g","l","e"," ","A","d","s"," ","p","l","a","t","f","o","r","m">>
    \* 'Instagram Story Template' (App.py:89)
    DEMO001_NAME ==
      <<"I","n","s","t","a","g","r","a","m"," ","S","t","o","r","y"," ","T","e","m","p","l","a","t","e">>
    \* 'Bright and engaging story template for product showcase' (App.py:90)
    DEMO001_DESC ==
      <<"B","r","i","g","h","t"," ","a","n","d"," ","e","n","g","a","g","i","n","g"," ","s","t","o","r","y"," ","t","e","m","p","l","a","t","e"," ","f","o","r"," ","p","r","o","d","u","c","t"," ","s","h","o","w","c","a","s","e">>
    \* 'https://example.com/campaign1' (App.py:92)
    DEMO001_URL ==
      <<"h","t","t","p","s",":","/","/","e","x","a","m","p","l","e",".","c","o","m","/","c","a","m","p","a","i","g","n","1">>
    \* 'Product Demo Video' (App.py:100)
    DEMO002_NAME ==
      <<"P","r","o","d","u","c","t"," ","D","e","m","o"," ","V","i","d","e","o">>
    \* 'Short video demonstrating key product features' (App.py:101)
    DEMO002_DESC ==
      <<"S","h","o","r","t"," ","v","i","d","e","o"," ","d","e","m","o","n","s","t","r","a","t","i","n","g"," ","k","e","y"," ","p","r","o","d","u","c","t"," ","f","e","a","t","u","r","e","s">>
    \* 'https://example.com/video' (App.py:103)
    DEMO002_URL ==
      <<"h","t","t","p","s",":","/","/","e","x","a","m","p","l","e",".","c","o","m","/","v","i","d","e","o">>
    \* 'Search Ad Creative' (App.py:116)
    DEMO003_NAME ==
      <<"S","e","a","r","c","h"," ","A","d"," ","C","r","e","a","t","i","v","e">>
    \* 'Text and image combination for Google search results' (App.py:119)
    DEMO003_DESC ==
      <<"T","e","x","t"," ","a","n","d"," ","i","m","a","g","e"," ","c","o","m","b","i","n","a","t","i","o","n"," ","f","o","r"," ","G","o","o","g","l","e"," ","s","e","a","r","c","h"," ","r","e","s","u","l","t","s">>
    \* 'https://example.com/landing' (App.py:121)
    DEMO003_URL ==
      <<"h","t","t","p","s",":","/","/","e","x","a","m","p","l","e",".","c","o","m","/","l","a","n","d","i","n","g">>
    \* ['instagram', 'story', 'template', 'summer']
    DEMO001_TAGS ==
      << <<"i","n","s","t","a","g","r","a","m">>,
         <<"s","t","o","r","y">>,
         <<"t","e","m","p","l","a","t","e">>,
         <<"s","u","m","m","e","r">> >>
    \* ['video', 'demo', 'product', 'features']
    DEMO002_TAGS ==
      << <<"v","i","d","e","o">>,
         <<"d","e","m","o">>,
         <<"p","r","o","d","u","c","t">>,
         <<"f","e","a","t","u","r","e","s">> >>
    \* ['google', 'search', 'text-ad']
    DEMO003_TAGS ==
      << <<"g","o","o","g","l","e">>,
         <<"s","e","a","r","c","h">>,
         <<"t","e","x","t","-","a","d">> >>
  IN
  [campaign |->
     [name |-> CAMPAIGN_NAME,
      objective |-> CAMPAIGN_OBJECTIVE,
      created_at |-> isoformat(t)],
   ad_sets |->
     (SOCIAL_MEDIA_ADS :>
        [name |-> SOCIAL_MEDIA_ADS,
         description |-> SOCIAL_MEDIA_ADS_DESC,
         created_at |-> isoformat(t),
         ads |->
           (DEMO001 :>
              [id |-> DEMO001,
               name |-> DEMO001_NAME,
               description |-> DEMO001_DESC,
               tags |-> DEMO001_TAGS,
               url |-> DEMO001_URL,
               schedule_date |-> None,
               created_at |-> isoformat(t),
               file_path |-> <<>>,
               mime_type |-> IMAGE_JPEG])
           @@
           (DEMO002 :>
              [id |-> DEMO002,
               name |-> DEMO002_NAME,
               description |-> DEMO002_DESC,
               tags |-> DEMO002_TAGS,
               url |-> DEMO002_URL,
               schedule_date |-> None,
               created_at |-> isoformat(t),
               file_path |-> <<>>,
               mime_type |-> VIDEO_MP4])])
     @@
     (GOOGLE_ADS :>
        [name |-> GOOGLE_ADS,
         description |-> GOOGLE_ADS_DESC,
         created_at |-> isoformat(t),
         ads |->
           (DEMO003 :>
              [id |-> DEMO003,
               name |-> DEMO003_NAME,
               description |-> DEMO003_DESC,
               tags |-> DEMO003_TAGS,
               url |-> DEMO003_URL,
               schedule_date |-> None,
               created_at |-> isoformat(t),
               file_path |-> <<>>,
               mime_type |-> IMAGE_PNG])])]

(***************************************************************************)
(* JSON.  json.dump turns a dict into an object, a list into an array, a   *)
(* str into a string and None into null; json.load turns them back.  The   *)
(* values of a document are dicts keyed by str, strs, None and, under      *)
(* 'tags', lists of str: no value of another type reaches json.dump.       *)
(***************************************************************************)
json_string(s) == [t |-> "string", v |-> s]
json_null == [t |-> "null", v |-> <<>>]
json_array(xs) == [t |-> "array", v |-> xs]
json_object(d) == [t |-> "object", v |-> d]

\* json.dump that writes null for an empty value
json_dump_field_empty_as_null(k, x) ==
  IF x = None \/ x = <<>> THEN json_null
  ELSE IF k = "tags" THEN json_array([i \in 1..Len(x) |-> json_string(x[i])])
  ELSE json_string(x)

\* json.dump of the value x held under key k of a campaign, an ad set or an ad
json_dump_field(k, x) ==
  IF x = None THEN json_null
  ELSE IF k = "tags" THEN json_array([i \in 1..Len(x) |-> json_string(x[i])])
  ELSE json_string(x)

json_dump_ad(ad) == json_object([k \in DOMAIN ad |-> json_dump_field(k, ad[k])])

json_dump_ad_set(ad_set) ==
  json_object([k \in DOMAIN ad_set |->
                 IF k = "ads"
                 THEN json_object([i \in DOMAIN ad_set[k] |-> json_dump_ad(ad_set[k][i])])
                 ELSE json_dump_field(k, ad_set[k])])

\* json.dump(metadata, f, ...): the JSON value the text written stands for
json_dump(metadata0) ==
  json_object(
    [k \in DOMAIN metadata0 |->
       IF k = "ad_sets"
       THEN json_object([s \in DOMAIN metadata0[k] |-> json_dump_ad_set(metadata0[k][s])])
       ELSE json_object([c \in DOMAIN metadata0[k] |-> json_dump_field(c, metadata0[k][c])])])

\* json.load(f): the Python value of a JSON value
RECURSIVE json_load(_)
json_load(j) ==
  IF j.t = "null" THEN None
  ELSE IF j.t = "string" THEN j.v
  ELSE IF j.t = "array" THEN [i \in DOMAIN j.v |-> json_load(j.v[i])]
  ELSE [k \in DOMAIN j.v |-> json_load(j.v[k])]

(***************************************************************************)
(* META_FILE.  kind is "missing", "json" (the file holds the whole text of *)
(* the JSON value doc) or "partial" (the file was opened for writing and   *)
(* holds less than the text of doc, nothing at all at first).  before is   *)
(* not in the file: for a partial file it is the last whole content the    *)
(* file had.                                                               *)
(***************************************************************************)
NoContent == <<>>

MissingFile == [kind |-> "missing", doc |-> NoContent, before |-> NoContent]

\* what META_FILE holds after save_metadata(metadata): the whole document as
\* one JSON text
save_metadata(metadata0) ==
  [kind |-> "json", doc |-> json_dump(metadata0), before |-> NoContent]

\* what META_FILE holds when save_metadata(metadata) has opened it with 'w'
\* (line 142) and json.dump (line 143) has not, or not wholly, written it
save_metadata_cut_short(file, metadata0) ==
  [kind |-> "partial", doc |-> json_dump(metadata0),
   before |-> IF file.kind = "json" THEN file.doc ELSE file.before]

\* the exceptions open(META_FILE, 'r') raises on a file that exists
OpenOutcomes == {"", "PermissionError"}

\* load_metadata(): what it raises and what it returns.  FileNotFoundError and
\* json.JSONDecodeError are caught and give the default document; any other
\* exception of open() gets out; a JSON value is returned as json.load gives it
load_metadata(file, t, open_raises) ==
  IF file.kind = "missing"
  THEN [raised |-> "", ret |-> get_default_metadata(t)]
  ELSE IF open_raises # ""
  THEN [raised |-> open_raises, ret |-> None]
  ELSE IF file.kind = "partial"
  THEN [raised |-> "", ret |-> get_default_metadata(t)]
  ELSE [raised |-> "", ret |-> json_load(file.doc)]

\* ensure_directories() that writes the default document at every start
ensure_directories_always_saving(file, t) == save_metadata(get_default_metadata(t))

\* ensure_directories(): META_FILE after the manager is constructed
ensure_directories(file, t) ==
  IF file.kind = "missing" THEN save_metadata(get_default_metadata(t)) ELSE file

\* the (ad set, ad id) entries of a document
AdEntries(m) ==
  UNION {{<<s, i>> : i \in DOMAIN m.ad_sets[s].ads} : s \in DOMAIN m.ad_sets}

\* sum(len(ad_set['ads']) for ad_set in metadata['ad_sets'].values())
TotalAds(m) == Cardinality(AdEntries(m))

(***************************************************************************)
(* State.                                                                  *)
(***************************************************************************)
VARIABLES
  metadata,   \* the document in memory (main: metadata)
  disk,       \* META_FILE
  files,      \* the paths under MEDIA_DIR and THUMB_DIR that exist
  ad_data,    \* the caller's dict handed to the last create_ad, as the call left it
  now,        \* the clock
  last,       \* the last call: its name, the line it left by, what it raised
  peer        \* the document in memory of a second session of the script

\* the variables, with the name and the line of the last call ahead of the
\* call record: the value a call returns is of another kind from one
\* operation to the next (None, a set, a dict), and two call records are
\* told apart by operation and line before their values are compared
vars == <<metadata, disk, files, ad_data, now, last.op, last.path, last, peer>>

\* a call record: the operation, the source line the call returned or raised
\* at, the exception it raised ("" when it returned) and the value it returned
Call(op, path, raised, ret) ==
  [op |-> op, path |-> path, raised |-> raised, ret |-> ret]

\* a method's result: the document it leaves in memory, whether it reached
\* save_metadata, the line it left by and what it raised
Result(metadata0, saved, path, raised) ==
  [metadata |-> metadata0, saved |-> saved, path |-> path, raised |-> raised]

Init ==
  /\ now = 0
  /\ disk = ensure_directories(MissingFile, 0)
  /\ metadata = load_metadata(disk, 0, "").ret
  /\ peer = load_metadata(disk, 0, "").ret
  /\ files = {}
  /\ ad_data = EmptyDict
  /\ last = Call("main", 491, "", None)

\* what the result r of a method leaves in memory and in META_FILE
Commit(r) ==
  /\ metadata' = r.metadata
  /\ disk' = IF r.saved THEN save_metadata(r.metadata) ELSE disk

(***************************************************************************)
(* MediaTreeManager.create_ad_set                                          *)
(***************************************************************************)
\* create_ad_set with line 210, name = name.strip(), left out
create_ad_set_unstripped(metadata0, name, description, t) ==
  IF name = <<>>
  THEN Result(metadata0, FALSE, 212, "ValueError")
  ELSE IF name \in DOMAIN metadata0.ad_sets
  THEN Result(metadata0, FALSE, 214, "ValueError")
  ELSE Result([metadata0 EXCEPT !.ad_sets =
                 DictSet(@, name,
                         [name |-> name,
                          description |-> description,
                          created_at |-> isoformat(t),
                          ads |-> EmptyDict])],
              TRUE, 222, "")

create_ad_set(metadata0, name, description, t) ==
  LET stripped == strip(name) IN
  IF stripped = <<>>
  THEN Result(metadata0, FALSE, 212, "ValueError")
  ELSE IF stripped \in DOMAIN metadata0.ad_sets
  THEN Result(metadata0, FALSE, 214, "ValueError")
  ELSE Result([metadata0 EXCEPT !.ad_sets =
                 DictSet(@, stripped,
                         [name |-> stripped,
                          description |-> description,
                          created_at |-> isoformat(t),
                          ads |-> EmptyDict])],
              TRUE, 222, "")

google_ads == <<"g","o","o","g","l","e"," ","a","d","s">>

\* names typed into "Ad Set Name": blank, new, new with blanks around it, taken
NameInputs ==
  {<<" ">>, google_ads, <<" ">> \o google_ads \o <<"\t">>, GOOGLE_ADS}

\* texts typed into "Description (optional)"
DescriptionInputs == {<<"x">>}

Call_create_ad_set(name, description) ==
  /\ Cardinality(DOMAIN metadata.ad_sets) < MaxAdSets
  /\ LET r == create_ad_set(metadata, name, description, now) IN
       /\ Commit(r)
       /\ last' = Call("create_ad_set", r.path, r.raised, None)
  /\ ad_data' = EmptyDict
  /\ UNCHANGED <<files, now, peer>>

(***************************************************************************)
(* main: the "Delete Set" button of an ad set                              *)
(***************************************************************************)
\* the "Delete Set" button with the test of line 994 left out
delete_ad_set_cascading(metadata0, ad_set_name) ==
  Result([metadata0 EXCEPT !.ad_sets = DictDel(@, ad_set_name)], TRUE, 996, "")

delete_ad_set(metadata0, ad_set_name) ==
  IF Cardinality(DOMAIN metadata0.ad_sets[ad_set_name].ads) = 0
  THEN Result([metadata0 EXCEPT !.ad_sets = DictDel(@, ad_set_name)],
              TRUE, 996, "")
  ELSE Result(metadata0, FALSE, 999, "")

\* the button is drawn for the ad sets of the document only
Call_delete_ad_set(ad_set_name) ==
  /\ ad_set_name \in DOMAIN metadata.ad_sets
  /\ LET r == delete_ad_set(metadata, ad_set_name) IN
       /\ Commit(r)
       /\ last' = Call("delete_ad_set", r.path, r.raised, None)
  /\ ad_data' = EmptyDict
  /\ UNCHANGED <<files, now, peer>>

(***************************************************************************)
(* File classifier and media store.                                        *)
(***************************************************************************)
UPPERCASE ==
  <<"A","B","C","D","E","F","G","H","I","J","K","L","M",
    "N","O","P","Q","R","S","T","U","V","W","X","Y","Z">>
LOWERCASE ==
  <<"a","b","c","d","e","f","g","h","i","j","k","l","m",
    "n","o","p","q","r","s","t","u","v","w","x","y","z">>

\* str.lower()
lower(s) ==
  [i \in 1..Len(s) |->
     IF \E j \in 1..Len(UPPERCASE) : UPPERCASE[j] = s[i]
     THEN LOWERCASE[CHOOSE j \in 1..Len(UPPERCASE) : UPPERCASE[j] = s[i]]
     ELSE s[i]]

\* s.split(sep)[-1]: what follows the last sep, all of s when it has none
RECURSIVE AfterLast(_, _)
AfterLast(s, sep) ==
  IF \E i \in 1..Len(s) : s[i] = sep THEN AfterLast(Tail(s), sep) ELSE s

\* s.split(sep), sep one character
RECURSIVE split(_, _)
split(s, sep) ==
  IF \E i \in 1..Len(s) : s[i] = sep
  THEN LET i == CHOOSE k \in 1..Len(s) :
                  s[k] = sep /\ \A j \in 1..(k - 1) : s[j] # sep
       IN <<SubSeq(s, 1, i - 1)>> \o split(SubSeq(s, i + 1, Len(s)), sep)
  ELSE <<s>>

\* [x for x in xs if x]
RECURSIVE NonEmpty(_)
NonEmpty(xs) ==
  IF xs = <<>> THEN <<>>
  ELSE IF Head(xs) = <<>> THEN NonEmpty(Tail(xs))
  ELSE <<Head(xs)>> \o NonEmpty(Tail(xs))

\* [tag.strip() for tag in text.split(sep) if tag.strip()]
ParseTags(text, sep) ==
  LET parts == split(text, sep) IN
  NonEmpty([i \in 1..Len(parts) |-> strip(parts[i])])
ALLOWED_EXTENSIONS ==
  [images |->
     << <<"p","n","g">>,
        <<"j","p","g">>,
        <<"j","p","e","g">>,
        <<"g","i","f">>,
        <<"b","m","p">>,
        <<"w","e","b","p">>,
        <<"s","v","g">> >>,
   videos |->
     << <<"m","p","4">>,
        <<"m","o","v">>,
        <<"a","v","i">>,
        <<"m","k","v">>,
        <<"w","e","b","m">>,
        <<"m","4","v">>,
        <<"f","l","v">> >>,
   audio |->
     << <<"m","p","3">>,
        <<"w","a","v">>,
        <<"o","g","g">>,
        <<"a","a","c">>,
        <<"m","4","a">> >>]

\* the categories in the order of the dict
CATEGORIES == <<"images", "videos", "audio">>

\* sum(ALLOWED_EXTENSIONS.values(), [])
ALL_ALLOWED ==
  ALLOWED_EXTENSIONS["images"] \o ALLOWED_EXTENSIONS["videos"]
    \o ALLOWED_EXTENSIONS["audio"]

\* x in xs, xs a list
InList(x, xs) == \E i \in 1..Len(xs) : xs[i] = x

is_allowed_file(filename) == InList(lower(AfterLast(filename, ".")), ALL_ALLOWED)

get_file_category(filename) ==
  LET extension == lower(AfterLast(filename, ".")) IN
  IF \E i \in 1..Len(CATEGORIES) : InList(extension, ALLOWED_EXTENSIONS[CATEGORIES[i]])
  THEN CATEGORIES[CHOOSE i \in 1..Len(CATEGORIES) :
                    /\ InList(extension, ALLOWED_EXTENSIONS[CATEGORIES[i]])
                    /\ \A j \in 1..(i - 1) :
                         ~InList(extension, ALLOWED_EXTENSIONS[CATEGORIES[j]])]
  ELSE "unknown"

(***************************************************************************)
(* MediaTreeManager.create_ad                                              *)
(***************************************************************************)
ID_A == <<"0","a","1","b","2","c","3","d">>
ID_B == <<"4","e","5","f","6","a","7","b">>

\* uuid.uuid4().hex[:8]: eight hexadecimal digits, drawn without a look at the
\* ids the document holds
GeneratedIds == {ID_A, ID_B}

\* ad_data0 is the caller's dict, ad_id what uuid4 gives, t the clock; the
\* caller's dict is updated in place before the ad set is looked up
create_ad(metadata0, ad_set_name, ad_data0, ad_id, t) ==
  LET ad == DictUpdate(ad_data0, [id |-> ad_id, created_at |-> isoformat(t)]) IN
  IF ad_set_name \notin DOMAIN metadata0.ad_sets
  THEN [metadata |-> metadata0, saved |-> FALSE, path |-> 231,
        raised |-> "KeyError", ad_data |-> ad, ret |-> None]
  ELSE [metadata |->
          [metadata0 EXCEPT !.ad_sets[ad_set_name].ads = DictSet(@, ad_id, ad)],
        saved |-> TRUE, path |-> 233,
        raised |-> "", ad_data |-> ad, ret |-> ad_id]

BANNER == <<"B","a","n","n","e","r">>

\* the ad_data dicts callers build
AdDataInputs ==
  {[name |-> BANNER, description |-> <<>>, url |-> <<>>,
    tags |-> << <<"a">>, <<"b">> >>, schedule_date |-> None,
    file_path |-> <<>>, mime_type |-> <<>>]}

\* ad set names callers pass: a default ad set and one that exists only once it
\* is created
AdSetArgs == {GOOGLE_ADS, google_ads}

\* ad ids callers pass
AdIdArgs == GeneratedIds

Call_create_ad(ad_set_name, ad_data0, ad_id) ==
  /\ TotalAds(metadata) < MaxAds
  /\ LET r == create_ad(metadata, ad_set_name, ad_data0, ad_id, now) IN
       /\ Commit(r)
       /\ ad_data' = r.ad_data
       /\ last' = Call("create_ad", r.path, r.raised, r.ret)
  /\ UNCHANGED <<files, now, peer>>

(***************************************************************************)
(* MediaTreeManager.update_ad                                              *)
(***************************************************************************)
\* update_ad that stores updates in place of the record instead of merging
update_ad_replacing(metadata0, ad_set_name, ad_id, updates) ==
  IF /\ ad_set_name \in DOMAIN metadata0.ad_sets
     /\ ad_id \in DOMAIN metadata0.ad_sets[ad_set_name].ads
  THEN Result([metadata0 EXCEPT !.ad_sets[ad_set_name].ads[ad_id] = updates],
              TRUE, 239, "")
  ELSE Result(metadata0, FALSE, 237, "")

update_ad(metadata0, ad_set_name, ad_id, updates) ==
  IF /\ ad_set_name \in DOMAIN metadata0.ad_sets
     /\ ad_id \in DOMAIN metadata0.ad_sets[ad_set_name].ads
  THEN Result([metadata0 EXCEPT !.ad_sets[ad_set_name].ads[ad_id] =
                 DictUpdate(@, updates)],
              TRUE, 239, "")
  ELSE Result(metadata0, FALSE, 237, "")

\* the updates dicts callers pass: a field the record has and one it lacks
UpdatesInputs == {[name |-> <<"N","e","w">>, note |-> <<"n">>]}

Call_update_ad(ad_set_name, ad_id, updates) ==
  /\ LET r == update_ad(metadata, ad_set_name, ad_id, updates) IN
       /\ Commit(r)
       /\ last' = Call("update_ad", r.path, r.raised, None)
  /\ ad_data' = EmptyDict
  /\ UNCHANGED <<files, now, peer>>

(***************************************************************************)
(* MediaTreeManager.delete_ad                                              *)
(***************************************************************************)
MEDIA_DIR ==
  <<"m","e","d","i","a","_","t","r","e","e","_","d","a","t","a","/","m","e","d","i","a">>
THUMB_DIR ==
  <<"m","e","d","i","a","_","t","r","e","e","_","d","a","t","a","/","t","h","u","m","b","n","a","i","l","s">>
THUMB_PREFIX == <<"t","h","u","m","b","_">>

\* Path(p).name: what follows the last "/"
RECURSIVE PathName(_)
PathName(p) ==
  IF \E i \in 1..Len(p) : p[i] = "/" THEN PathName(Tail(p)) ELSE p

\* THUMB_DIR / f"thumb_{Path(file_path).name}"
ThumbOf(file_path) == THUMB_DIR \o <<"/">> \o THUMB_PREFIX \o PathName(file_path)

\* get_thumbnail_path(file_path); fs is the set of paths that exist
get_thumbnail_path(fs, file_path) ==
  IF file_path = <<>> THEN None
  ELSE IF ThumbOf(file_path) \in fs THEN ThumbOf(file_path) ELSE None

\* whether delete_ad goes on to the files of the ad
Cascades(ad, delete_file) ==
  delete_file /\ "file_path" \in DOMAIN ad /\ ad["file_path"] # <<>>

\* the paths that exist after lines 249-259; unlink_raises says which unlink()
\* raises ("file", "thumb" or "none"): the exception is caught and reported,
\* and what follows it in the try block is skipped
UnlinkFiles(fs, file_path, unlink_raises) ==
  IF file_path \in fs /\ unlink_raises = "file"
  THEN fs
  ELSE LET file_gone == fs \ {file_path}
           thumb_path == get_thumbnail_path(file_gone, file_path)
       IN IF thumb_path # None /\ unlink_raises # "thumb"
          THEN file_gone \ {thumb_path}
          ELSE file_gone

\* delete_ad that saves the document also when the ad is not found
delete_ad_saving_when_absent(metadata0, fs, ad_set_name, ad_id, delete_file, unlink_raises) ==
  IF \/ ad_set_name \notin DOMAIN metadata0.ad_sets
     \/ ad_id \notin DOMAIN metadata0.ad_sets[ad_set_name].ads
  THEN [metadata |-> metadata0, saved |-> TRUE, path |-> 262, raised |-> "",
        files |-> fs]
  ELSE
    LET ad == metadata0.ad_sets[ad_set_name].ads[ad_id] IN
    [metadata |->
       [metadata0 EXCEPT !.ad_sets[ad_set_name].ads = DictDel(@, ad_id)],
     saved |-> TRUE, path |-> 262, raised |-> "",
     files |-> IF Cascades(ad, delete_file)
               THEN UnlinkFiles(fs, ad["file_path"], unlink_raises)
               ELSE fs]

\* delete_ad that lets the exception of unlink() out: the ad stays and nothing
\* is saved
delete_ad_aborting_on_unlink_error(metadata0, fs, ad_set_name, ad_id, delete_file, unlink_raises) ==
  IF \/ ad_set_name \notin DOMAIN metadata0.ad_sets
     \/ ad_id \notin DOMAIN metadata0.ad_sets[ad_set_name].ads
  THEN [metadata |-> metadata0, saved |-> FALSE, path |-> 244, raised |-> "",
        files |-> fs]
  ELSE
    LET ad == metadata0.ad_sets[ad_set_name].ads[ad_id] IN
    IF Cascades(ad, delete_file) /\ unlink_raises # "none"
    THEN [metadata |-> metadata0, saved |-> FALSE, path |-> 252,
          raised |-> "OSError",
          files |-> UnlinkFiles(fs, ad["file_path"], unlink_raises)]
    ELSE
    [metadata |->
       [metadata0 EXCEPT !.ad_sets[ad_set_name].ads = DictDel(@, ad_id)],
     saved |-> TRUE, path |-> 262, raised |-> "",
     files |-> IF Cascades(ad, delete_file)
               THEN UnlinkFiles(fs, ad["file_path"], unlink_raises)
               ELSE fs]

\* delete_ad that leaves alone a file another ad of the document refers to
delete_ad_keeping_shared_files(metadata0, fs, ad_set_name, ad_id, delete_file, unlink_raises) ==
  IF \/ ad_set_name \notin DOMAIN metadata0.ad_sets
     \/ ad_id \notin DOMAIN metadata0.ad_sets[ad_set_name].ads
  THEN [metadata |-> metadata0, saved |-> FALSE, path |-> 244, raised |-> "",
        files |-> fs]
  ELSE
    LET ad == metadata0.ad_sets[ad_set_name].ads[ad_id]
        shared == \E e \in AdEntries(metadata0) \ {<<ad_set_name, ad_id>>} :
                    /\ "file_path" \in DOMAIN metadata0.ad_sets[e[1]].ads[e[2]]
                    /\ "file_path" \in DOMAIN ad
                    /\ metadata0.ad_sets[e[1]].ads[e[2]]["file_path"] = ad["file_path"]
    IN
    [metadata |->
       [metadata0 EXCEPT !.ad_sets[ad_set_name].ads = DictDel(@, ad_id)],
     saved |-> TRUE, path |-> 262, raised |-> "",
     files |-> IF Cascades(ad, delete_file) /\ ~shared
               THEN UnlinkFiles(fs, ad["file_path"], unlink_raises)
               ELSE fs]

delete_ad(metadata0, fs, ad_set_name, ad_id, delete_file, unlink_raises) ==
  IF \/ ad_set_name \notin DOMAIN metadata0.ad_sets
     \/ ad_id \notin DOMAIN metadata0.ad_sets[ad_set_name].ads
  THEN [metadata |-> metadata0, saved |-> FALSE, path |-> 244, raised |-> "",
        files |-> fs]
  ELSE
    LET ad == metadata0.ad_sets[ad_set_name].ads[ad_id] IN
    [metadata |->
       [metadata0 EXCEPT !.ad_sets[ad_set_name].ads = DictDel(@, ad_id)],
     saved |-> TRUE, path |-> 262, raised |-> "",
     files |-> IF Cascades(ad, delete_file)
               THEN UnlinkFiles(fs, ad["file_path"], unlink_raises)
               ELSE fs]

\* the unlink() calls that can raise: those delete_ad reaches
UnlinkOutcomes(metadata0, fs, ad_set_name, ad_id, delete_file) ==
  IF /\ ad_set_name \in DOMAIN metadata0.ad_sets
     /\ ad_id \in DOMAIN metadata0.ad_sets[ad_set_name].ads
     /\ Cascades(metadata0.ad_sets[ad_set_name].ads[ad_id], delete_file)
  THEN LET file_path == metadata0.ad_sets[ad_set_name].ads[ad_id]["file_path"] IN
       {"none"} \cup (IF file_path \in fs THEN {"file"} ELSE {})
                \cup (IF ThumbOf(file_path) \in fs THEN {"thumb"} ELSE {})
  ELSE {"none"}

Call_delete_ad(ad_set_name, ad_id, delete_file) ==
  \E unlink_raises \in
       UnlinkOutcomes(metadata, files, ad_set_name, ad_id, delete_file) :
    /\ LET r == delete_ad(metadata, files, ad_set_name, ad_id, delete_file,
                          unlink_raises) IN
         /\ Commit(r)
         /\ files' = r.files
         /\ last' = Call("delete_ad", r.path, r.raised, None)
    /\ ad_data' = EmptyDict
    /\ UNCHANGED <<now, peer>>

(***************************************************************************)
(* MediaTreeManager.move_ad                                                *)
(***************************************************************************)
\* move_ad with the test of lines 266-267 left out
move_ad_unguarded(metadata0, from_set, to_set, ad_id) ==
  IF from_set \notin DOMAIN metadata0.ad_sets
  THEN Result(metadata0, FALSE, 269, "KeyError")
  ELSE IF ad_id \notin DOMAIN metadata0.ad_sets[from_set].ads
  THEN Result(metadata0, FALSE, 269, "KeyError")
  ELSE
    LET ad == metadata0.ad_sets[from_set].ads[ad_id]
        popped == [metadata0 EXCEPT !.ad_sets[from_set].ads = DictDel(@, ad_id)]
    IN IF to_set \notin DOMAIN metadata0.ad_sets
       THEN Result(popped, FALSE, 270, "KeyError")
       ELSE Result([popped EXCEPT !.ad_sets[to_set].ads = DictSet(@, ad_id, ad)],
                   TRUE, 271, "")

\* line 269 looks up the source ad set and pops the ad; line 270 looks up the
\* destination ad set after that
move_ad(metadata0, from_set, to_set, ad_id) ==
  IF from_set = to_set
  THEN Result(metadata0, FALSE, 267, "")
  ELSE IF from_set \notin DOMAIN metadata0.ad_sets
  THEN Result(metadata0, FALSE, 269, "KeyError")
  ELSE IF ad_id \notin DOMAIN metadata0.ad_sets[from_set].ads
  THEN Result(metadata0, FALSE, 269, "KeyError")
  ELSE
    LET ad == metadata0.ad_sets[from_set].ads[ad_id]
        popped == [metadata0 EXCEPT !.ad_sets[from_set].ads = DictDel(@, ad_id)]
    IN IF to_set \notin DOMAIN metadata0.ad_sets
       THEN Result(popped, FALSE, 270, "KeyError")
       ELSE Result([popped EXCEPT !.ad_sets[to_set].ads = DictSet(@, ad_id, ad)],
                   TRUE, 271, "")

Call_move_ad(from_set, to_set, ad_id) ==
  /\ LET r == move_ad(metadata, from_set, to_set, ad_id) IN
       /\ Commit(r)
       /\ last' = Call("move_ad", r.path, r.raised, None)
  /\ ad_data' = EmptyDict
  /\ UNCHANGED <<files, now, peer>>

(***************************************************************************)
(* MediaTreeManager.save_uploaded_file and main: "Process Uploads"         *)
(***************************************************************************)
\* the last index of ch in s, 0 when s has none
LastIndex(s, ch) ==
  IF \E i \in 1..Len(s) : s[i] = ch
  THEN CHOOSE i \in 1..Len(s) : s[i] = ch /\ \A j \in (i + 1)..Len(s) : s[j] # ch
  ELSE 0

\* Path(p).suffix: the name from its last "." on, when that "." is neither
\* the first nor the last character of the name
PathSuffix(p) ==
  LET name == PathName(p)
      i == LastIndex(name, ".")
  IN IF 1 < i /\ i < Len(name) THEN SubSeq(name, i, Len(name)) ELSE <<>>

OCTET_STREAM ==
  <<"a","p","p","l","i","c","a","t","i","o","n","/","o","c","t","e","t","-","s","t","r","e","a","m">>

\* mimetypes.guess_type(path)[0] or 'application/octet-stream', for the
\* extensions of the files the model uploads
guess_type(path) ==
  LET ext == lower(PathSuffix(path)) IN
  IF ext = <<".","p","n","g">> THEN IMAGE_PNG
  ELSE IF ext = <<".","j","p","g">> \/ ext = <<".","j","p","e","g">> THEN IMAGE_JPEG
  ELSE IF ext = <<".","m","p","4">> THEN VIDEO_MP4
  ELSE OCTET_STREAM

\* token is uuid.uuid4().hex; thumbnail says whether Pillow is there and
\* create_thumbnail wrote the thumbnail
save_uploaded_file(fs, name, token, thumbnail) ==
  IF ~is_allowed_file(name)
  THEN [raised |-> "ValueError", files |-> fs, file_path |-> None,
        mime_type |-> None]
  ELSE
    LET file_path == MEDIA_DIR \o <<"/">> \o token \o lower(PathSuffix(name))
        written == fs \cup {file_path}
    IN [raised |-> "",
        files |-> IF thumbnail /\ get_file_category(name) = "images"
                  THEN written \cup {ThumbOf(file_path)}
                  ELSE written,
        file_path |-> file_path,
        mime_type |-> guess_type(file_path)]

UPLOADED_FROM ==
  <<"U","p","l","o","a","d","e","d"," ","f","r","o","m"," ">>

\* names of uploaded files: an image, and a type that is not allowed
UploadNames ==
  {<<"B","a","n","n","e","r",".","P","N","G">>, <<"n","o","t","e","s",".","t","x","t">>}

\* uuid.uuid4().hex
FileTokens ==
  {<<"0","1","2","3","4","5","6","7","8","9","a","b","c","d","e","f",
     "0","1","2","3","4","5","6","7","8","9","a","b","c","d","e","f">>}

\* texts typed into "Default tags (comma-separated)"
DefaultTagsInputs == {<<"a",","," ","b">>}

\* "Process Uploads" of an ad set with one file chosen: the file is stored and
\* an ad is made for it; a refused file is reported and no ad is made
Process_Uploads(ad_set_name, name, token, thumbnail, default_tags, ad_id) ==
  /\ ad_set_name \in DOMAIN metadata.ad_sets
  /\ TotalAds(metadata) < MaxAds
  /\ LET f == save_uploaded_file(files, name, token, thumbnail) IN
       IF f.raised # ""
       THEN /\ last' = Call("process_uploads", 1040, "", None)
            /\ ad_data' = EmptyDict
            /\ UNCHANGED <<metadata, disk, files, now, peer>>
       ELSE LET r == create_ad(metadata, ad_set_name,
                               [name |-> name,
                                file_path |-> f.file_path,
                                mime_type |-> f.mime_type,
                                description |-> UPLOADED_FROM \o name,
                                url |-> <<>>,
                                tags |-> ParseTags(default_tags, ","),
                                schedule_date |-> None],
                               ad_id, now)
            IN /\ Commit(r)
               /\ files' = f.files
               /\ ad_data' = r.ad_data
               /\ last' = Call("process_uploads", 1045, r.raised, None)
               /\ UNCHANGED <<now, peer>>

(***************************************************************************)
(* MediaTreeManager.search_ads                                             *)
(***************************************************************************)
\* q in text, for two str
Contains(text, q) ==
  \E i \in 0..(Len(text) - Len(q)) : SubSeq(text, i + 1, i + Len(q)) = q

\* sep.join(xs)
RECURSIVE join(_, _)
join(xs, sep) ==
  IF xs = <<>> THEN <<>>
  ELSE IF Len(xs) = 1 THEN Head(xs)
  ELSE Head(xs) \o sep \o join(Tail(xs), sep)

\* d.get(k, default)
Get(d, k, default) == IF k \in DOMAIN d THEN d[k] ELSE default

\* lines 281-285: name, description and the tags, joined by spaces and
\* lower-cased
searchable_text(ad) ==
  lower(join(<<Get(ad, "name", <<>>),
               Get(ad, "description", <<>>),
               join(Get(ad, "tags", <<>>), <<" ">>)>>,
             <<" ">>))

\* search_ads that looks at the name only
search_ads_by_name(metadata0, query) ==
  {<<e[1], e[2], metadata0.ad_sets[e[1]].ads[e[2]]>> :
     e \in {x \in AdEntries(metadata0) :
              Contains(lower(Get(metadata0.ad_sets[x[1]].ads[x[2]], "name", <<>>)),
                       lower(query))}}

\* the (ad_set_name, ad_id, ad) triples of results
search_ads(metadata0, query) ==
  LET query_lower == lower(query) IN
  {<<e[1], e[2], metadata0.ad_sets[e[1]].ads[e[2]]>> :
     e \in {x \in AdEntries(metadata0) :
              Contains(searchable_text(metadata0.ad_sets[x[1]].ads[x[2]]),
                       query_lower)}}

\* texts typed into the search box, and the empty query
QueryInputs ==
  {<<>>, <<"B","A","N">>, <<"a"," ","b">>, <<"C","r","e","a","t","i","v","e">>}

Call_search_ads(query) ==
  /\ last' = Call("search_ads", 290, "", search_ads(metadata, query))
  /\ ad_data' = EmptyDict
  /\ UNCHANGED <<metadata, disk, files, now, peer>>

(***************************************************************************)
(* MediaTreeManager.get_statistics                                         *)
(***************************************************************************)
\* the sum of f over the finite set S, an element at a time
RECURSIVE SumOver(_, _)
SumOver(S, f) ==
  IF S = {} THEN 0
  ELSE LET x == CHOOSE y \in S : TRUE IN f[x] + SumOver(S \ {x}, f)

\* lines 306-311: what one ad adds to ads_by_type[type]
TypeCount(ad, type) ==
  IF "file_path" \in DOMAIN ad /\ ad["file_path"] # <<>>
  THEN LET category == get_file_category(ad["file_path"]) IN
       IF category \in {"images", "videos", "audio", "other"}
       THEN IF category = type THEN 1 ELSE 0
       ELSE IF type = "other" THEN 1 ELSE 0
  ELSE 0

\* get_statistics without the test of line 306
get_statistics_counting_all(metadata0) ==
  LET entries == AdEntries(metadata0)
      by_set == [s \in DOMAIN metadata0.ad_sets |->
                   Cardinality(DOMAIN metadata0.ad_sets[s].ads)]
      category(e) == get_file_category(Get(metadata0.ad_sets[e[1]].ads[e[2]], "file_path", <<>>))
  IN [total_ad_sets |-> Cardinality(DOMAIN metadata0.ad_sets),
      total_ads |-> SumOver(DOMAIN metadata0.ad_sets, by_set),
      ads_by_type |->
        [type \in {"images", "videos", "audio", "other"} |->
           SumOver(entries,
                   [e \in entries |->
                      IF category(e) = type \/ (type = "other" /\ category(e) = "unknown")
                      THEN 1 ELSE 0])],
      ads_by_set |-> by_set]

get_statistics(metadata0) ==
  LET entries == AdEntries(metadata0)
      by_set == [s \in DOMAIN metadata0.ad_sets |->
                   Cardinality(DOMAIN metadata0.ad_sets[s].ads)]
  IN [total_ad_sets |-> Cardinality(DOMAIN metadata0.ad_sets),
      total_ads |-> SumOver(DOMAIN metadata0.ad_sets, by_set),
      ads_by_type |->
        [type \in {"images", "videos", "audio", "other"} |->
           SumOver(entries,
                   [e \in entries |->
                      TypeCount(metadata0.ad_sets[e[1]].ads[e[2]], type)])],
      ads_by_set |-> by_set]

Call_get_statistics ==
  /\ last' = Call("get_statistics", 314, "", get_statistics(metadata))
  /\ ad_data' = EmptyDict
  /\ UNCHANGED <<metadata, disk, files, now, peer>>

(***************************************************************************)
(* MediaTreeManager.is_allowed_file and get_file_category, called          *)
(***************************************************************************)
\* file names and paths handed to the classifier
FilenameInputs ==
  {<<>>,
   <<"p","n","g">>,
   <<"a",".","P","N","G">>,
   <<"a",".","t","x","t">>,
   <<"x",".","t","a","r",".","m","p","3">>,
   <<"m","p","4",".">>,
   <<"c","l","i","p",".","M","o","v">>}

Call_is_allowed_file(filename) ==
  /\ last' = Call("is_allowed_file", 148, "",
                  [filename |-> filename,
                   allowed |-> is_allowed_file(filename),
                   category |-> get_file_category(filename)])
  /\ ad_data' = EmptyDict
  /\ UNCHANGED <<metadata, disk, files, now, peer>>

\* the ad_data dicts of the ads that are searched and counted: with and without
\* tags, with and without a file, files of every category and of none
QueryAdData ==
  {[name |-> BANNER, description |-> <<>>, url |-> <<>>,
    tags |-> << <<"a">>, <<"b">> >>, schedule_date |-> None,
    file_path |-> <<>>, mime_type |-> <<>>],
   [name |-> <<"b","a","n">>, description |-> <<"A","B">>],
   [name |-> <<"x">>, description |-> <<>>, tags |-> <<>>,
    file_path |-> <<"m","/","a",".","P","N","G">>],
   [name |-> <<"x">>, description |-> <<>>, tags |-> <<>>,
    file_path |-> <<"m","/","c","l","i","p",".","m","p","4">>],
   [name |-> <<"x">>, description |-> <<>>, tags |-> <<>>,
    file_path |-> <<"m","/","s",".","m","p","3">>],
   [name |-> <<"x">>, description |-> <<>>, tags |-> <<>>,
    file_path |-> <<"m","/","n",".","t","x","t">>]}

\* search, statistics and the classifier, over documents made by create_ad
NextQuery ==
  \/ \E ad_set_name \in AdSetArgs, ad_data0 \in QueryAdData, ad_id \in GeneratedIds :
       Call_create_ad(ad_set_name, ad_data0, ad_id)
  \/ \E query \in QueryInputs : Call_search_ads(query)
  \/ Call_get_statistics
  \/ \E filename \in FilenameInputs : Call_is_allowed_file(filename)

SpecQuery == Init /\ [][NextQuery]_vars

(***************************************************************************)
(* main: a run of the script makes the manager and loads the document      *)
(***************************************************************************)
Load ==
  /\ disk' = ensure_directories(disk, now)
  /\ metadata' = load_metadata(disk', now, "").ret
  /\ last' = Call("main", 491, "", None)
  /\ ad_data' = EmptyDict
  /\ UNCHANGED <<files, now, peer>>

\* time passes
Tick ==
  /\ now < MaxTime
  /\ now' = now + 1
  /\ UNCHANGED <<metadata, disk, files, ad_data, last, peer>>

Next ==
  \/ \E name \in NameInputs, description \in DescriptionInputs :
       Call_create_ad_set(name, description)
  \/ \E ad_set_name \in AdSetArgs : Call_delete_ad_set(ad_set_name)
  \/ \E ad_set_name \in AdSetArgs, ad_data0 \in AdDataInputs, ad_id \in GeneratedIds :
       Call_create_ad(ad_set_name, ad_data0, ad_id)
  \/ \E ad_set_name \in AdSetArgs, ad_id \in AdIdArgs, updates \in UpdatesInputs :
       Call_update_ad(ad_set_name, ad_id, updates)
  \/ \E ad_set_name \in AdSetArgs, ad_id \in AdIdArgs, delete_file \in BOOLEAN :
       Call_delete_ad(ad_set_name, ad_id, delete_file)
  \/ \E from_set \in AdSetArgs, to_set \in AdSetArgs, ad_id \in AdIdArgs :
       Call_move_ad(from_set, to_set, ad_id)
  \/ Load
  \/ Tick

Spec == Init /\ [][Next]_vars

\* the operations on ads that have media files: uploads, and what removes or
\* moves the ads made by them
NextMedia ==
  \/ \E ad_set_name \in AdSetArgs, name \in UploadNames, token \in FileTokens,
        thumbnail \in BOOLEAN, default_tags \in DefaultTagsInputs, ad_id \in GeneratedIds :
       Process_Uploads(ad_set_name, name, token, thumbnail, default_tags, ad_id)
  \/ \E ad_set_name \in AdSetArgs, ad_id \in AdIdArgs, delete_file \in BOOLEAN :
       Call_delete_ad(ad_set_name, ad_id, delete_file)
  \/ \E from_set \in AdSetArgs, to_set \in AdSetArgs, ad_id \in AdIdArgs :
       Call_move_ad(from_set, to_set, ad_id)
  \/ \E name \in NameInputs, description \in DescriptionInputs :
       Call_create_ad_set(name, description)
  \/ \E ad_set_name \in AdSetArgs : Call_delete_ad_set(ad_set_name)
  \/ Load

SpecMedia == Init /\ [][NextMedia]_vars

(***************************************************************************)
(* main: "Save Campaign" (lines 511-516)                                   *)
(***************************************************************************)
\* what the handler leaves in memory and in META_FILE; write_raises is what
\* the write of save_metadata raises after the file is opened ("" when the
\* text is written whole)
save_campaign(metadata0, file, campaign_name, campaign_objective, write_raises) ==
  LET m == [metadata0 EXCEPT !.campaign =
              DictSet(DictSet(@, "name", campaign_name),
                      "objective", campaign_objective)]
  IN IF write_raises = ""
     THEN [metadata |-> m, disk |-> save_metadata(m), path |-> 516, raised |-> ""]
     ELSE [metadata |-> m, disk |-> save_metadata_cut_short(file, m),
           path |-> 143, raised |-> write_raises]

\* the exceptions the write of a file that is open raises
WriteOutcomes == {"", "OSError"}

FALL_SALE == <<"F","a","l","l"," ","S","a","l","e">>

\* texts of the "Campaign Name" and "Campaign Objective" fields
CampaignNameInputs == {FALL_SALE}
CampaignObjectiveInputs == {<<>>}

\* st.rerun(): the script runs again, with a new manager and a new load
rerun(file, t) == load_metadata(ensure_directories(file, t), t, "").ret

\* the handler; after a write that went through the script is run again
Save_Campaign(campaign_name, campaign_objective, write_raises) ==
  /\ LET r == save_campaign(metadata, disk, campaign_name, campaign_objective,
                            write_raises) IN
       /\ disk' = r.disk
       /\ metadata' = IF r.raised = "" THEN rerun(r.disk, now) ELSE r.metadata
       /\ last' = Call("save_campaign", r.path, r.raised, None)
  /\ ad_data' = EmptyDict
  /\ UNCHANGED <<files, now, peer>>

(***************************************************************************)
(* main: "Import CSV Data" (lines 841-882)                                 *)
(***************************************************************************)
\* the value pandas gives an empty cell (float('nan'))
NaN == <<"<NaN>">>

\* pd.notna(x)
notna(x) == x # None /\ x # NaN

\* str(x) of a cell: the text itself, 'nan' for an empty cell
str(x) == IF x = NaN THEN <<"n","a","n">> ELSE x

\* str(row.get(column, default))
Cell(row, column, default) == str(Get(row, column, default))

\* 'Imported Ad' (line 868)
IMPORTED_AD == <<"I","m","p","o","r","t","e","d"," ","A","d">>

\* lines 849-877 for one row; ad_id is what uuid4 gives create_ad.  raised is
\* the exception that ends the loop (row['ad_set_name'] of a table without
\* that column), saved whether create_ad was reached
import_row(metadata0, row, ad_id, t) ==
  LET m1 == IF notna(Get(row, "campaign_name", None))
            THEN [metadata0 EXCEPT !.campaign = DictSet(@, "name", str(row["campaign_name"]))]
            ELSE metadata0
      m2 == IF notna(Get(row, "campaign_objective", None))
            THEN [m1 EXCEPT !.campaign = DictSet(@, "objective", str(row["campaign_objective"]))]
            ELSE m1
  IN IF "ad_set_name" \notin DOMAIN row
     THEN [metadata |-> m2, raised |-> "KeyError", saved |-> FALSE]
     ELSE
       LET ad_set_name == str(row["ad_set_name"])
           m3 == IF ad_set_name \notin DOMAIN m2.ad_sets
                 THEN [m2 EXCEPT !.ad_sets =
                         DictSet(@, ad_set_name,
                                 [name |-> ad_set_name,
                                  description |-> Cell(row, "ad_set_description", <<>>),
                                  created_at |-> isoformat(t),
                                  ads |-> EmptyDict])]
                 ELSE m2
           ad_data0 == [name |-> Cell(row, "ad_name", IMPORTED_AD),
                        description |-> Cell(row, "ad_description", <<>>),
                        url |-> Cell(row, "ad_url", <<>>),
                        tags |-> ParseTags(Cell(row, "ad_tags", <<>>), "|"),
                        schedule_date |->
                          IF notna(Get(row, "schedule_date", None))
                          THEN Cell(row, "schedule_date", <<>>)
                          ELSE None,
                        file_path |-> Cell(row, "file_path", <<>>),
                        mime_type |-> Cell(row, "mime_type", <<>>)]
       IN [metadata |-> create_ad(m3, ad_set_name, ad_data0, ad_id, t).metadata,
           raised |-> "", saved |-> TRUE]

\* lines 848-878: the rows in turn, up to the first that raises
RECURSIVE import_rows(_, _, _, _)
import_rows(metadata0, rows, ad_ids, t) ==
  IF rows = <<>> THEN [metadata |-> metadata0, raised |-> "", saved |-> FALSE]
  ELSE LET r == import_row(metadata0, Head(rows), Head(ad_ids), t) IN
       IF r.raised # "" THEN r
       ELSE [import_rows(r.metadata, Tail(rows), Tail(ad_ids), t) EXCEPT !.saved = TRUE]

\* lines 843-882: in "Replace all data" mode the ad sets are cleared in
\* memory; every row ends in a create_ad, which saves; nothing else saves.  An
\* exception is caught and reported (line 882, no rerun); nothing is raised
\* to the caller
import_csv(metadata0, replace, rows, ad_ids, t) ==
  LET cleared == IF replace THEN [metadata0 EXCEPT !.ad_sets = EmptyDict]
                 ELSE metadata0
      r == import_rows(cleared, rows, ad_ids, t)
  IN [metadata |-> r.metadata, saved |-> r.saved,
      path |-> IF r.raised = "" THEN 880 ELSE 882, raised |-> ""]

IMPORTED == <<"I","m","p","o","r","t","e","d">>

\* the rows of the uploaded table: none, and one
RowsInputs ==
  {<<>>,
   <<[campaign_name |-> FALL_SALE,
      ad_set_name |-> IMPORTED,
      ad_name |-> BANNER,
      ad_tags |-> <<"a","|"," ","b">>]>>}

\* the handler: the import, and the script run again
Import_CSV(replace, rows, ad_ids) ==
  /\ Len(ad_ids) = Len(rows)
  /\ rows # <<>> =>
       /\ TotalAds(metadata) + Len(rows) <= MaxAds
       /\ Cardinality(DOMAIN metadata.ad_sets) < MaxAdSets
  /\ LET r == import_csv(metadata, replace, rows, ad_ids, now)
         file == IF r.saved THEN save_metadata(r.metadata) ELSE disk
     IN /\ disk' = file
        /\ metadata' = IF r.path = 880 THEN rerun(file, now) ELSE r.metadata
        /\ last' = Call("import_csv", r.path, r.raised, None)
  /\ ad_data' = EmptyDict
  /\ UNCHANGED <<files, now, peer>>

(***************************************************************************)
(* main: "Import Metadata" (lines 1286-1300)                               *)
(***************************************************************************)
\* the JSON values of the uploaded files: an object with the two keys the
\* handler asks for, and one without 'ad_sets'
ImportedInputs ==
  {json_object([campaign |-> json_object(EmptyDict),
                ad_sets |-> json_object(EmptyDict)]),
   json_object([campaign |-> json_object(EmptyDict)])}

Import_Metadata(uploaded_meta) ==
  /\ LET imported_data == json_load(uploaded_meta) IN
       IF "campaign" \in DOMAIN imported_data /\ "ad_sets" \in DOMAIN imported_data
       THEN /\ disk' = save_metadata(imported_data)
            /\ metadata' = rerun(disk', now)
            /\ last' = Call("import_metadata", 1296, "", None)
       ELSE /\ last' = Call("import_metadata", 1298, "", None)
            /\ UNCHANGED <<metadata, disk>>
  /\ ad_data' = EmptyDict
  /\ UNCHANGED <<files, now, peer>>

(***************************************************************************)
(* main, line 491, when open() raises on a file that exists                *)
(***************************************************************************)
Load_open_raises ==
  /\ disk.kind # "missing"
  /\ \E open_raises \in OpenOutcomes \ {""} :
       LET r == load_metadata(disk, now, open_raises) IN
         last' = Call("main", 135, r.raised, r.ret)
  /\ ad_data' = EmptyDict
  /\ UNCHANGED <<metadata, disk, files, now, peer>>

(***************************************************************************)
(* A second session of the script: its own document in memory, the same    *)
(* META_FILE.                                                              *)
(***************************************************************************)
\* a save that keeps the ad sets META_FILE holds and the document lacks
PeerCommit_keeping_ad_sets(r) ==
  /\ peer' = r.metadata
  /\ disk' = IF r.saved
             THEN save_metadata([r.metadata EXCEPT !.ad_sets =
                                   DictUpdate(json_load(disk.doc).ad_sets, @)])
             ELSE disk

\* what the result r of a method leaves in the memory of the second session
\* and in META_FILE
PeerCommit(r) ==
  /\ peer' = r.metadata
  /\ disk' = IF r.saved THEN save_metadata(r.metadata) ELSE disk

Peer_Load ==
  /\ disk' = ensure_directories(disk, now)
  /\ peer' = load_metadata(disk', now, "").ret
  /\ UNCHANGED <<metadata, files, ad_data, now, last>>

Peer_create_ad_set(name, description) ==
  /\ Cardinality(DOMAIN peer.ad_sets) < MaxAdSets
  /\ PeerCommit(create_ad_set(peer, name, description, now))
  /\ UNCHANGED <<metadata, files, ad_data, now, last>>

\* the store under two sessions: loads, saves that go through and saves that
\* are cut short, imports
NextStore ==
  \/ Load
  \/ Load_open_raises
  \/ \E campaign_name \in CampaignNameInputs,
        campaign_objective \in CampaignObjectiveInputs,
        write_raises \in WriteOutcomes :
       Save_Campaign(campaign_name, campaign_objective, write_raises)
  \/ \E replace \in BOOLEAN, rows \in RowsInputs, ad_id \in {ID_A} :
       Import_CSV(replace, rows, IF rows = <<>> THEN <<>> ELSE <<ad_id>>)
  \/ \E uploaded_meta \in ImportedInputs : Import_Metadata(uploaded_meta)
  \/ Peer_Load
  \/ \E name \in {google_ads}, description \in DescriptionInputs :
       Peer_create_ad_set(name, description)

SpecStore == Init /\ [][NextStore]_vars

\* every operation that makes or changes a document, and the load of what was
\* saved
NextRoundTrip ==
  \/ \E name \in NameInputs, description \in DescriptionInputs :
       Call_create_ad_set(name, description)
  \/ \E ad_set_name \in AdSetArgs, ad_data0 \in AdDataInputs, ad_id \in GeneratedIds :
       Call_create_ad(ad_set_name, ad_data0, ad_id)
  \/ \E ad_set_name \in AdSetArgs, ad_id \in AdIdArgs, updates \in UpdatesInputs :
       Call_update_ad(ad_set_name, ad_id, updates)
  \/ \E ad_set_name \in AdSetArgs, ad_id \in AdIdArgs, delete_file \in BOOLEAN :
       Call_delete_ad(ad_set_name, ad_id, delete_file)
  \/ \E from_set \in AdSetArgs, to_set \in AdSetArgs, ad_id \in AdIdArgs :
       Call_move_ad(from_set, to_set, ad_id)
  \/ \E replace \in BOOLEAN, rows \in RowsInputs, ad_id \in {ID_A} :
       Import_CSV(replace, rows, IF rows = <<>> THEN <<>> ELSE <<ad_id>>)
  \/ Load

SpecRoundTrip == Init /\ [][NextRoundTrip]_vars


(***************************************************************************)
(* MediaTreeManager.export_campaign_zip (lines 370-390) and main: "Create  *)
(* Full Backup" (lines 1276-1277).  The archive is the entries written to  *)
(* it: how many entries each name has (a ZIP file takes a name more than   *)
(* once) and the JSON value of the metadata entry.                         *)
(***************************************************************************)
\* 'campaign_metadata.json' (line 376)
CAMPAIGN_METADATA_JSON ==
  <<"c","a","m","p","a","i","g","n","_","m","e","t","a","d","a","t","a",".","j","s","o","n">>

\* f"media/{ad_set_name}/{file_path.name}" (line 386)
archive_path(ad_set_name, file_path) ==
  <<"m","e","d","i","a","/">> \o ad_set_name \o <<"/">> \o PathName(file_path)

\* zip_file.writestr(name, ...) and zip_file.write(..., name): one more entry
\* of that name
AddEntry(zip, name) ==
  IF name \in DOMAIN zip THEN [zip EXCEPT ![name] = @ + 1] ELSE DictSet(zip, name, 1)

\* the test of line 382: the ad has a file_path, and it is not empty
HasFilePath(ad) ==
  /\ "file_path" \in DOMAIN ad
  /\ ad["file_path"] # <<>>
  /\ ad["file_path"] # None

\* the tests of lines 382 and 384 with the test of line 384 left out
HasFile_unchecked(fs, ad) == HasFilePath(ad)

\* the tests of lines 382 and 384: the file_path is not empty and the path
\* exists
HasFile(fs, ad) == HasFilePath(ad) /\ ad["file_path"] \in fs

\* lines 380-387, an ad at a time
RECURSIVE write_media(_, _, _, _)
write_media(zip, metadata0, fs, entries) ==
  IF entries = {} THEN zip
  ELSE LET e == CHOOSE x \in entries : TRUE
           ad == metadata0.ad_sets[e[1]].ads[e[2]]
       IN write_media(IF HasFile(fs, ad)
                      THEN AddEntry(zip, archive_path(e[1], ad["file_path"]))
                      ELSE zip,
                      metadata0, fs, entries \ {e})

export_campaign_zip(metadata0, fs) ==
  [entries |-> write_media(AddEntry(EmptyDict, CAMPAIGN_METADATA_JSON),
                           metadata0, fs, AdEntries(metadata0)),
   metadata |-> json_dump(metadata0)]

\* the button: the archive is handed to the download button, nothing else is
\* written
Create_Full_Backup ==
  /\ last' = Call("export_campaign_zip", 390, "", export_campaign_zip(metadata, files))
  /\ ad_data' = EmptyDict
  /\ UNCHANGED <<metadata, disk, files, now, peer>>

\* the path save_uploaded_file gives a file named *.png
UploadedPaths ==
  {MEDIA_DIR \o <<"/">> \o token \o <<".","p","n","g">> : token \in FileTokens}

\* a path of a table exported elsewhere: no file of that name is here
GONE_PNG == MEDIA_DIR \o <<"/","g","o","n","e",".","p","n","g">>

\* tables with one row that carries a file_path: that of an uploaded ad, and
\* one that names no file
CopiedRowsInputs ==
  {<<[campaign_name |-> FALL_SALE,
      ad_set_name |-> GOOGLE_ADS,
      ad_name |-> BANNER,
      file_path |-> p]>> : p \in UploadedPaths \cup {GONE_PNG}}

\* uploads, imports of rows that name an uploaded file, deletions and backups
NextArchive ==
  \/ \E ad_set_name \in {GOOGLE_ADS}, name \in UploadNames, token \in FileTokens,
        thumbnail \in BOOLEAN, default_tags \in DefaultTagsInputs, ad_id \in {ID_A} :
       Process_Uploads(ad_set_name, name, token, thumbnail, default_tags, ad_id)
  \/ \E replace \in BOOLEAN, rows \in CopiedRowsInputs, ad_id \in {ID_B} :
       Import_CSV(replace, rows, <<ad_id>>)
  \/ \E ad_set_name \in AdSetArgs, ad_id \in AdIdArgs, delete_file \in BOOLEAN :
       Call_delete_ad(ad_set_name, ad_id, delete_file)
  \/ \E from_set \in AdSetArgs, to_set \in {SOCIAL_MEDIA_ADS, GOOGLE_ADS}, ad_id \in AdIdArgs :
       Call_move_ad(from_set, to_set, ad_id)
  \/ Create_Full_Backup

SpecArchive == Init /\ [][NextArchive]_vars

(***************************************************************************)
(* main: the "Import Complete Campaign CSV" uploader (lines 811-885): the  *)
(* table is read, its columns are checked, and the import button is drawn  *)
(* only for a table that has the required columns.                         *)
(***************************************************************************)
\* line 822
required_cols == {"campaign_name", "ad_set_name", "ad_name"}

\* line 823 with a list of required columns that holds 'campaign_name' only
missing_cols_of_campaign_name_only(columns) == {"campaign_name"} \ columns

\* line 823
missing_cols(columns) == {col \in required_cols : col \notin columns}

\* the uploader with the button pressed: columns are the columns of
\* df_import, rows its rows; every row has a cell for every column
Upload_Campaign_CSV(columns, replace, rows, ad_ids) ==
  /\ \A i \in 1..Len(rows) : DOMAIN rows[i] = columns
  /\ IF missing_cols(columns) # {}
     THEN /\ last' = Call("import_csv", 826, "", None)
          /\ ad_data' = EmptyDict
          /\ UNCHANGED <<metadata, disk, files, now, peer>>
     ELSE Import_CSV(replace, rows, ad_ids)

\* a table of df_import
Table(columns, rows) == [columns |-> columns, rows |-> rows]

\* the uploaded tables: one row, no row, a row whose ad set name is a blank,
\* two rows alike, and tables that lack one of the required columns
TableInputs ==
  {Table({"campaign_name", "ad_set_name", "ad_name", "ad_tags"},
         <<[campaign_name |-> FALL_SALE, ad_set_name |-> IMPORTED,
            ad_name |-> BANNER, ad_tags |-> <<"a","|"," ","b">>]>>),
   Table({"campaign_name", "ad_set_name", "ad_name", "ad_tags"}, <<>>),
   Table({"campaign_name", "ad_set_name", "ad_name"},
         <<[campaign_name |-> NaN, ad_set_name |-> <<" ">>, ad_name |-> BANNER]>>),
   Table({"campaign_name", "ad_set_name", "ad_name"},
         <<[campaign_name |-> FALL_SALE, ad_set_name |-> IMPORTED, ad_name |-> BANNER],
           [campaign_name |-> FALL_SALE, ad_set_name |-> IMPORTED, ad_name |-> BANNER]>>),
   Table({"campaign_name", "ad_set_name"},
         <<[campaign_name |-> FALL_SALE, ad_set_name |-> IMPORTED]>>),
   Table({"campaign_name", "ad_name"},
         <<[campaign_name |-> FALL_SALE, ad_name |-> BANNER]>>),
   Table({"ad_set_name", "ad_name"},
         <<[ad_set_name |-> IMPORTED, ad_name |-> BANNER]>>)}

\* the ids uuid4 gives the create_ad calls of n rows
RECURSIVE IdsFor(_)
IdsFor(n) ==
  IF n = 0 THEN {<<>>}
  ELSE {<<i>> \o rest : i \in GeneratedIds, rest \in IdsFor(n - 1)}

(***************************************************************************)
(* main: "Export Campaign Data as CSV" (lines 725-766)                     *)
(***************************************************************************)
\* lines 732-748: the row of one ad
export_row(metadata0, ad_set_name, ad_id) ==
  LET ad_set == metadata0.ad_sets[ad_set_name]
      ad == ad_set.ads[ad_id]
  IN [campaign_name |-> metadata0.campaign["name"],
      campaign_objective |-> metadata0.campaign["objective"],
      ad_set_name |-> ad_set_name,
      ad_set_description |-> Get(ad_set, "description", <<>>),
      ad_id |-> ad_id,
      ad_name |-> Get(ad, "name", <<>>),
      ad_description |-> Get(ad, "description", <<>>),
      ad_url |-> Get(ad, "url", <<>>),
      ad_tags |-> join(Get(ad, "tags", <<>>), <<"|">>),
      schedule_date |-> Get(ad, "schedule_date", <<>>),
      file_path |-> Get(ad, "file_path", <<>>),
      mime_type |-> Get(ad, "mime_type", <<>>),
      created_at |-> Get(ad, "created_at", <<>>),
      ad_set_created |-> Get(ad_set, "created_at", <<>>),
      campaign_created |-> Get(metadata0.campaign, "created_at", <<>>)]

\* lines 729-748: csv_data, a row for every ad
RECURSIVE export_rows(_, _)
export_rows(metadata0, entries) ==
  IF entries = {} THEN <<>>
  ELSE LET e == CHOOSE x \in entries : TRUE IN
       <<export_row(metadata0, e[1], e[2])>> \o export_rows(metadata0, entries \ {e})

\* the cells pd.read_csv reads as missing values
NA_VALUES ==
  {<<>>, <<"N","A">>, <<"N","/","A">>, <<"n","/","a">>, <<"N","U","L","L">>,
   <<"n","u","l","l">>, <<"N","a","N">>, <<"n","a","n">>}

\* df.to_csv(index=False): the text of a cell; None and NaN are written as an
\* empty field
to_csv_cell(x) == IF x = None \/ x = NaN THEN <<>> ELSE x

\* pd.read_csv: the value of the cell a text is read as
read_csv_cell(text) == IF text \in NA_VALUES THEN NaN ELSE text

\* df.to_csv(index=False), the table as text: its header and the texts of
\* its cells
to_csv(table) ==
  [columns |-> table.columns,
   rows |-> [i \in 1..Len(table.rows) |->
               [c \in table.columns |-> to_csv_cell(table.rows[i][c])]]]

\* pd.read_csv(uploaded_csv), from the text of a table
read_csv(csv) ==
  [columns |-> csv.columns,
   rows |-> [i \in 1..Len(csv.rows) |->
               [c \in csv.columns |-> read_csv_cell(csv.rows[i][c])]]]

\* lines 750-766: the text handed to the download button; with no ad there
\* is no table and no button
export_csv(metadata0) ==
  LET csv_data == export_rows(metadata0, AdEntries(metadata0)) IN
  IF csv_data # <<>>
  THEN [path |-> 758, ret |-> to_csv(Table(DOMAIN csv_data[1], csv_data))]
  ELSE [path |-> 766, ret |-> None]

Export_CSV ==
  /\ LET r == export_csv(metadata) IN last' = Call("export_csv", r.path, "", r.ret)
  /\ ad_data' = EmptyDict
  /\ UNCHANGED <<metadata, disk, files, now, peer>>

\* ids uuid4 gives a run of create_ad calls when no two of them are alike
DistinctIds ==
  <<ID_A, ID_B,
    <<"8","c","9","d","0","e","1","f">>,
    <<"2","a","3","b","4","c","5","d">>,
    <<"6","e","7","f","8","a","9","b">>,
    <<"0","c","1","d","2","e","3","f">> >>

\* imports of tables, ad sets made by hand, and loads
NextImport ==
  \/ \E table \in TableInputs, replace \in BOOLEAN :
       \E ad_ids \in IdsFor(Len(table.rows)) :
         Upload_Campaign_CSV(table.columns, replace, table.rows, ad_ids)
  \/ \E name \in NameInputs, description \in DescriptionInputs :
       Call_create_ad_set(name, description)
  \/ \E ad_set_name \in AdSetArgs, ad_id \in AdIdArgs, delete_file \in {TRUE} :
       Call_delete_ad(ad_set_name, ad_id, delete_file)
  \/ Export_CSV
  \/ Load

SpecImport == Init /\ [][NextImport]_vars

(***************************************************************************)
(* main: "Bulk Add Tags" (lines 1262-1270)                                 *)
(***************************************************************************)
\* the lists list(S) can be for a set S: its elements once each, in an order
\* the hashes of the strings decide
RECURSIVE Orders(_)
Orders(S) ==
  IF S = {} THEN {<<>>}
  ELSE UNION {{<<x>> \o rest : rest \in Orders(S \ {x})} : x \in S}

\* set(xs) of a list
SetOf(xs) == {xs[i] : i \in 1..Len(xs)}

\* lines 1264-1267: the ads dicts the loop can leave, an ad at a time
RECURSIVE bulk_add_tags(_, _, _)
bulk_add_tags(ads, ad_ids, tags_to_add) ==
  IF ad_ids = {} THEN {ads}
  ELSE LET ad_id == CHOOSE x \in ad_ids : TRUE
           existing_tags == SetOf(Get(ads[ad_id], "tags", <<>>)) \cup SetOf(tags_to_add)
       IN UNION {bulk_add_tags([ads EXCEPT ![ad_id] = DictSet(@, "tags", tags)],
                               ad_ids \ {ad_id}, tags_to_add) :
                   tags \in Orders(existing_tags)}

\* the button: pressed with a text in the field, for an ad set of the
\* selectbox; the document is saved and the script run again
Bulk_Add_Tags(bulk_ad_set, bulk_tags_input) ==
  /\ bulk_ad_set \in DOMAIN metadata.ad_sets
  /\ bulk_tags_input # <<>>
  /\ \E ads \in bulk_add_tags(metadata.ad_sets[bulk_ad_set].ads,
                              DOMAIN metadata.ad_sets[bulk_ad_set].ads,
                              ParseTags(bulk_tags_input, ",")) :
       /\ disk' = save_metadata([metadata EXCEPT !.ad_sets[bulk_ad_set].ads = ads])
       /\ metadata' = rerun(disk', now)
  /\ last' = Call("bulk_add_tags", 1270, "", None)
  /\ ad_data' = EmptyDict
  /\ UNCHANGED <<files, now, peer>>

(***************************************************************************)
(* main: the edit form of an ad, "Save Changes" (lines 1104-1126)          *)
(***************************************************************************)
\* the form is drawn for the ads of the document; new_schedule is the text
\* of the date picked, None when no date is picked
Edit_Ad(ad_set_name, ad_id, new_name, new_desc, new_url, new_tags, new_schedule) ==
  /\ <<ad_set_name, ad_id>> \in AdEntries(metadata)
  /\ LET updates == [name |-> new_name,
                     description |-> new_desc,
                     url |-> new_url,
                     tags |-> ParseTags(new_tags, ","),
                     schedule_date |-> new_schedule]
         r == update_ad(metadata, ad_set_name, ad_id, updates)
     IN /\ disk' = IF r.saved THEN save_metadata(r.metadata) ELSE disk
        /\ metadata' = rerun(disk', now)
        /\ last' = Call("edit_ad", 1126, r.raised, None)
  /\ ad_data' = EmptyDict
  /\ UNCHANGED <<files, now, peer>>

\* updates dicts a caller of update_ad can pass: the time stamp, the id
FieldUpdatesInputs ==
  {[created_at |-> <<"2","0","2","0","-","0","1","-","0","1">>],
   [id |-> DEMO003]}

\* texts typed into "Tags to add (comma-separated)"
BulkTagsInputs == {<<"b">>}

\* a table of one row with tags
FieldsTable ==
  Table({"campaign_name", "ad_set_name", "ad_name", "ad_tags"},
        <<[campaign_name |-> FALL_SALE, ad_set_name |-> IMPORTED,
           ad_name |-> BANNER, ad_tags |-> <<"a","|"," ","b">>]>>)

\* the operations that make, change, move and remove ads and ad sets, while
\* time passes
NextFields ==
  \/ \E name \in {google_ads}, description \in DescriptionInputs :
       Call_create_ad_set(name, description)
  \/ \E ad_set_name \in AdSetArgs, ad_data0 \in AdDataInputs, ad_id \in GeneratedIds :
       Call_create_ad(ad_set_name, ad_data0, ad_id)
  \/ \E ad_set_name \in AdSetArgs, ad_id \in {ID_A}, updates \in FieldUpdatesInputs :
       Call_update_ad(ad_set_name, ad_id, updates)
  \/ \E ad_set_name \in AdSetArgs, ad_id \in AdIdArgs :
       Call_delete_ad(ad_set_name, ad_id, TRUE)
  \/ \E from_set \in AdSetArgs, to_set \in AdSetArgs, ad_id \in AdIdArgs :
       Call_move_ad(from_set, to_set, ad_id)
  \/ \E bulk_ad_set \in {google_ads}, bulk_tags_input \in BulkTagsInputs :
       Bulk_Add_Tags(bulk_ad_set, bulk_tags_input)
  \/ \E replace \in {FALSE}, ad_id \in {ID_A} :
       Upload_Campaign_CSV(FieldsTable.columns, replace, FieldsTable.rows, <<ad_id>>)
  \/ Tick

SpecFields == Init /\ [][NextFields]_vars

\* texts typed into a comma-separated tags field: two tags, one tag twice
TagsTextInputs == {<<"a",","," ","b">>, <<"a",","," ","a">>}

\* tables of one row with tags: two tags, one tag twice
TagsTables ==
  {Table({"campaign_name", "ad_set_name", "ad_name", "ad_tags"},
         <<[campaign_name |-> FALL_SALE, ad_set_name |-> IMPORTED,
            ad_name |-> BANNER, ad_tags |-> ad_tags]>>) :
     ad_tags \in {<<"a","|","b">>, <<"a","|","a">>}}

\* the date picked in the edit form: none, or a day
ScheduleInputs == {None, <<"2","0","2","5","-","1","0","-","0","1">>}

\* the four ways tags get onto an ad: an upload with default tags, the edit
\* form, an imported row, and bulk add tags
NextTags ==
  \/ \E ad_set_name \in {GOOGLE_ADS}, name \in UploadNames, token \in FileTokens,
        thumbnail \in {FALSE}, default_tags \in TagsTextInputs, ad_id \in {ID_A} :
       Process_Uploads(ad_set_name, name, token, thumbnail, default_tags, ad_id)
  \/ \E ad_set_name \in {GOOGLE_ADS}, ad_id \in {DEMO003, ID_A}, new_tags \in TagsTextInputs,
        new_schedule \in ScheduleInputs :
       Edit_Ad(ad_set_name, ad_id, BANNER, <<>>, <<>>, new_tags, new_schedule)
  \/ \E table \in TagsTables, replace \in BOOLEAN, ad_id \in {ID_B} :
       Upload_Campaign_CSV(table.columns, replace, table.rows, <<ad_id>>)
  \/ \E bulk_ad_set \in {IMPORTED}, bulk_tags_input \in TagsTextInputs :
       Bulk_Add_Tags(bulk_ad_set, bulk_tags_input)

SpecTags == Init /\ [][NextTags]_vars
(***************************************************************************)
(* What the claims speak of.                                               *)
(***************************************************************************)
\* ad set s of document m holds an ad under ad_id
HasAd(m, s, ad_id) ==
  s \in DOMAIN m.ad_sets /\ ad_id \in DOMAIN m.ad_sets[s].ads

\* the ad record of entry e = <<ad set, ad id>> of document m
AdAt(m, e) == m.ad_sets[e[1]].ads[e[2]]

\* META_FILE holds document m, whole
Persisted(file, m) == file = save_metadata(m)

\* the ads of m other than those of the entries in touched are in m2, unchanged
OtherAdsKept(m, m2, touched) ==
  \A e \in AdEntries(m) \ touched : e \in AdEntries(m2) /\ AdAt(m2, e) = AdAt(m, e)

\* the ad sets of m are those of m2, with the same name, description and
\* created_at, and the campaign is the same
AdSetsKept(m, m2) ==
  /\ DOMAIN m2.ad_sets = DOMAIN m.ad_sets
  /\ \A s \in DOMAIN m.ad_sets :
       /\ m2.ad_sets[s].name = m.ad_sets[s].name
       /\ m2.ad_sets[s].description = m.ad_sets[s].description
       /\ m2.ad_sets[s].created_at = m.ad_sets[s].created_at
  /\ m2.campaign = m.campaign

\* raw[i..j] is raw without the whitespace at its two ends (i = j + 1 when
\* nothing is left)
TrimsAt(raw, i, j) ==
  /\ i <= j + 1
  /\ \A k \in 1..(i - 1) : raw[k] \in WHITESPACE
  /\ \A k \in (j + 1)..Len(raw) : raw[k] \in WHITESPACE
  /\ i <= j => raw[i] \notin WHITESPACE /\ raw[j] \notin WHITESPACE

\* raw without the whitespace at its two ends
Trimmed(raw) ==
  LET ij == CHOOSE p \in (1..(Len(raw) + 1)) \X (0..Len(raw)) : TrimsAt(raw, p[1], p[2])
  IN SubSeq(raw, ij[1], ij[2])

(***************************************************************************)
(* C1.  "Delete Set" on an ad set that holds an ad is refused and changes   *)
(* neither the document in memory nor META_FILE; on an ad set without ads  *)
(* it removes that ad set, and nothing else, and saves the document.       *)
(***************************************************************************)
C1_DeleteAdSetOnlyWhenEmpty ==
  [][\A s \in AdSetArgs :
       Call_delete_ad_set(s) =>
         IF DOMAIN metadata.ad_sets[s].ads # {}
         THEN /\ last'.path = 999
              /\ metadata' = metadata
              /\ disk' = disk
         ELSE /\ DOMAIN metadata'.ad_sets = DOMAIN metadata.ad_sets \ {s}
              /\ \A o \in DOMAIN metadata'.ad_sets :
                   metadata'.ad_sets[o] = metadata.ad_sets[o]
              /\ metadata'.campaign = metadata.campaign
              /\ Persisted(disk', metadata')]_vars

\* "Delete Set" was refused, and an ad set made by create_ad_set holds an ad
C1_Witness_Refused ==
  /\ last.op = "delete_ad_set"
  /\ last.path = 999
  /\ google_ads \in DOMAIN metadata.ad_sets
  /\ DOMAIN metadata.ad_sets[google_ads].ads # {}
  /\ Persisted(disk, metadata)

(***************************************************************************)
(* C2.  No two ads of the document have the same id: an id names one entry *)
(* of one ad set.                                                          *)
(***************************************************************************)
C2_AdIdsUnique ==
  \A e1 \in AdEntries(metadata), e2 \in AdEntries(metadata) :
    e1[2] = e2[2] => e1 = e2

(***************************************************************************)
(* C3.  move_ad between two different ad sets raises when the source ad    *)
(* set, the destination ad set or the ad in the source ad set is missing,  *)
(* and then leaves the document in memory and META_FILE as they were.      *)
(***************************************************************************)
C3_FailedMoveChangesNothing ==
  [][\A from_set \in AdSetArgs, to_set \in AdSetArgs, ad_id \in AdIdArgs :
       ( /\ from_set # to_set
         /\ Call_move_ad(from_set, to_set, ad_id)
         /\ \/ ~HasAd(metadata, from_set, ad_id)
            \/ to_set \notin DOMAIN metadata.ad_sets )
       => /\ last'.raised = "KeyError"
          /\ metadata' = metadata
          /\ disk' = disk]_vars

(***************************************************************************)
(* C4.  A move_ad between two different ad sets that returns leaves the ad *)
(* out of the source ad set and in the destination ad set, same id and     *)
(* same fields, every other ad and the ad sets as they were, as many ads   *)
(* as before, and the document saved.                                      *)
(***************************************************************************)
C4_MoveKeepsTheRest ==
  [][\A from_set \in AdSetArgs, to_set \in AdSetArgs, ad_id \in AdIdArgs :
       ( /\ from_set # to_set
         /\ Call_move_ad(from_set, to_set, ad_id)
         /\ last'.raised = "" )
       => /\ ~HasAd(metadata', from_set, ad_id)
          /\ HasAd(metadata', to_set, ad_id)
          /\ AdAt(metadata', <<to_set, ad_id>>) = AdAt(metadata, <<from_set, ad_id>>)
          /\ OtherAdsKept(metadata, metadata', {<<from_set, ad_id>>})
          /\ AdSetsKept(metadata, metadata')
          /\ TotalAds(metadata') = TotalAds(metadata)
          /\ Persisted(disk', metadata')]_vars

(***************************************************************************)
(* C5.  create_ad_set raises when the name without the whitespace at its   *)
(* ends is empty or is the key of an ad set, and then changes neither the  *)
(* document nor META_FILE; otherwise the document gains one ad set, under  *)
(* that trimmed name and with no ads, the other ad sets stay as they were, *)
(* and the document is saved.                                              *)
(***************************************************************************)
C5_CreateAdSet ==
  [][\A name \in NameInputs, description \in DescriptionInputs :
       Call_create_ad_set(name, description) =>
         LET n == Trimmed(name) IN
         IF n = <<>> \/ n \in DOMAIN metadata.ad_sets
         THEN /\ last'.raised = "ValueError"
              /\ metadata' = metadata
              /\ disk' = disk
         ELSE /\ last'.raised = ""
              /\ DOMAIN metadata'.ad_sets = DOMAIN metadata.ad_sets \cup {n}
              /\ metadata'.ad_sets[n].name = n
              /\ metadata'.ad_sets[n].description = description
              /\ DOMAIN metadata'.ad_sets[n].ads = {}
              /\ \A o \in DOMAIN metadata.ad_sets :
                   metadata'.ad_sets[o] = metadata.ad_sets[o]
              /\ metadata'.campaign = metadata.campaign
              /\ Persisted(disk', metadata')]_vars

\* create_ad_set made an ad set whose name differs from another's by case only
C5_Witness_Created ==
  /\ last.op = "create_ad_set"
  /\ last.path = 222
  /\ {GOOGLE_ADS, google_ads} \subseteq DOMAIN metadata.ad_sets
  /\ DOMAIN metadata.ad_sets[google_ads].ads = {}
  /\ Persisted(disk, metadata)

(***************************************************************************)
(* C6.  create_ad for an ad set the document does not have raises, and     *)
(* leaves the document, META_FILE and the caller's ad_data as they were.   *)
(***************************************************************************)
C6_FailedCreateAdChangesNothing ==
  [][\A ad_set_name \in AdSetArgs, ad_data0 \in AdDataInputs, ad_id \in GeneratedIds :
       ( /\ Call_create_ad(ad_set_name, ad_data0, ad_id)
         /\ ad_set_name \notin DOMAIN metadata.ad_sets )
       => /\ last'.raised = "KeyError"
          /\ metadata' = metadata
          /\ disk' = disk
          /\ ad_data' = ad_data0]_vars

(***************************************************************************)
(* C7.  create_ad for an ad set of the document makes that ad set one ad   *)
(* larger, returns the id the new ad is stored under, stores the given     *)
(* fields with id and created_at, leaves every ad there was as it was, and *)
(* saves the document.                                                     *)
(***************************************************************************)
C7_CreateAdAddsOne ==
  [][\A ad_set_name \in AdSetArgs, ad_data0 \in AdDataInputs, ad_id \in GeneratedIds :
       ( /\ Call_create_ad(ad_set_name, ad_data0, ad_id)
         /\ ad_set_name \in DOMAIN metadata.ad_sets )
       => /\ last'.raised = ""
          /\ Cardinality(DOMAIN metadata'.ad_sets[ad_set_name].ads)
               = Cardinality(DOMAIN metadata.ad_sets[ad_set_name].ads) + 1
          /\ HasAd(metadata', ad_set_name, last'.ret)
          /\ LET ad == AdAt(metadata', <<ad_set_name, last'.ret>>) IN
               /\ ad["id"] = last'.ret
               /\ DOMAIN ad = DOMAIN ad_data0 \cup {"id", "created_at"}
               /\ \A k \in DOMAIN ad_data0 \ {"id", "created_at"} : ad[k] = ad_data0[k]
          /\ OtherAdsKept(metadata, metadata', {})
          /\ AdSetsKept(metadata, metadata')
          /\ Persisted(disk', metadata')]_vars

(***************************************************************************)
(* C8.  update_ad for an ad set or an ad id the document does not have     *)
(* changes nothing and saves nothing.  Otherwise every key of the record   *)
(* has the value updates gives it when updates has the key, and the value  *)
(* it had when not; no other ad changes; and the document is saved.        *)
(***************************************************************************)
C8_UpdateAdMerges ==
  [][\A ad_set_name \in AdSetArgs, ad_id \in AdIdArgs, updates \in UpdatesInputs :
       Call_update_ad(ad_set_name, ad_id, updates) =>
         /\ last'.raised = ""
         /\ IF ~HasAd(metadata, ad_set_name, ad_id)
            THEN metadata' = metadata /\ disk' = disk
            ELSE LET old == AdAt(metadata, <<ad_set_name, ad_id>>)
                     new == AdAt(metadata', <<ad_set_name, ad_id>>)
                 IN /\ DOMAIN new = DOMAIN old \cup DOMAIN updates
                    /\ \A k \in DOMAIN new :
                         new[k] = IF k \in DOMAIN updates THEN updates[k] ELSE old[k]
                    /\ AdEntries(metadata') = AdEntries(metadata)
                    /\ OtherAdsKept(metadata, metadata', {<<ad_set_name, ad_id>>})
                    /\ AdSetsKept(metadata, metadata')
                    /\ Persisted(disk', metadata')]_vars

\* update_ad merged updates into an ad: the ad has the key it lacked and the
\* keys updates does not name
C8_Witness_Merged ==
  /\ last.op = "update_ad"
  /\ last.path = 239
  /\ \E e \in AdEntries(metadata) :
       /\ "note" \in DOMAIN AdAt(metadata, e)
       /\ "tags" \in DOMAIN AdAt(metadata, e)
       /\ AdAt(metadata, e)["name"] = <<"N","e","w">>
  /\ Persisted(disk, metadata)

(***************************************************************************)
(* C9.  move_ad(X, X, id) returns without raising and changes neither the  *)
(* document nor META_FILE, whether or not X is an ad set and id an ad.     *)
(***************************************************************************)
C9_MoveToSameSetIsNoOp ==
  [][\A x \in AdSetArgs, ad_id \in AdIdArgs :
       Call_move_ad(x, x, ad_id) =>
         /\ last'.raised = ""
         /\ metadata' = metadata
         /\ disk' = disk]_vars

\* move_ad returned at line 267 while the document in memory was not the saved
\* one and one of the ad set names callers pass named no ad set
C9_Witness_SameSet ==
  /\ last.op = "move_ad"
  /\ last.path = 267
  /\ ~Persisted(disk, metadata)
  /\ \E x \in AdSetArgs : x \notin DOMAIN metadata.ad_sets

(***************************************************************************)
(* C10.  delete_ad for an ad set or an ad id the document does not have    *)
(* returns without raising and changes neither the document, META_FILE nor *)
(* the files, also with delete_file; and after any delete_ad the ad is not *)
(* there, so that the same call again is such a call.                      *)
(***************************************************************************)
C10_DeleteAbsentAdIsNoOp ==
  [][\A ad_set_name \in AdSetArgs, ad_id \in AdIdArgs, delete_file \in BOOLEAN :
       Call_delete_ad(ad_set_name, ad_id, delete_file) =>
         /\ last'.raised = ""
         /\ ~HasAd(metadata', ad_set_name, ad_id)
         /\ ~HasAd(metadata, ad_set_name, ad_id) =>
              /\ metadata' = metadata
              /\ disk' = disk
              /\ files' = files]_vars

\* delete_ad returned at line 244 while files existed and the document in
\* memory was not the saved one
C10_Witness_Absent ==
  /\ last.op = "delete_ad"
  /\ last.path = 244
  /\ files # {}
  /\ ~Persisted(disk, metadata)

\* a path of files that is a thumbnail whose media file is not in files
OrphanThumbs(fs) ==
  {t \in fs : \E token \in FileTokens, name \in UploadNames :
     LET file_path == MEDIA_DIR \o <<"/">> \o token \o lower(PathSuffix(name))
     IN t = ThumbOf(file_path) /\ file_path \notin fs}

(***************************************************************************)
(* C11.  delete_ad for an ad the document has removes that ad, and nothing *)
(* else, and saves the document, whatever the unlink() calls do; without   *)
(* delete_file no file and no thumbnail is removed.                        *)
(***************************************************************************)
C11_DeleteFoundAdAlwaysCommits ==
  [][\A ad_set_name \in AdSetArgs, ad_id \in AdIdArgs, delete_file \in BOOLEAN :
       ( /\ Call_delete_ad(ad_set_name, ad_id, delete_file)
         /\ HasAd(metadata, ad_set_name, ad_id) )
       => /\ last'.raised = ""
          /\ AdEntries(metadata') = AdEntries(metadata) \ {<<ad_set_name, ad_id>>}
          /\ OtherAdsKept(metadata, metadata', {<<ad_set_name, ad_id>>})
          /\ AdSetsKept(metadata, metadata')
          /\ Persisted(disk', metadata')
          /\ files' \subseteq files
          /\ ~delete_file => files' = files]_vars

\* delete_ad removed an ad and its media file, the unlink() of the thumbnail
\* raised: the thumbnail is there, the media file and the ad are not
C11_Witness_UnlinkRaised ==
  /\ last.op = "delete_ad"
  /\ last.path = 262
  /\ OrphanThumbs(files) # {}
  /\ AdEntries(metadata) = AdEntries(get_default_metadata(0))
  /\ Persisted(disk, metadata)

\* the lower-cased name, the lower-cased description or a lower-cased tag of ad
\* has lower-cased q in it
FieldMatches(ad, q) ==
  \/ "name" \in DOMAIN ad /\ Contains(lower(ad["name"]), lower(q))
  \/ "description" \in DOMAIN ad /\ Contains(lower(ad["description"]), lower(q))
  \/ /\ "tags" \in DOMAIN ad
     /\ \E k \in 1..Len(ad["tags"]) : Contains(lower(ad["tags"][k]), lower(q))

(***************************************************************************)
(* C12.  search_ads with a query that is not empty returns the triples of  *)
(* the ads whose name, description or one of whose tags has the query in   *)
(* it, case aside, and of no other ad.                                     *)
(***************************************************************************)
C12_SearchMatchesWithinFields ==
  [][\A query \in QueryInputs :
       (query # <<>> /\ last'.op = "search_ads" /\ Call_search_ads(query)) =>
         last'.ret = {<<e[1], e[2], AdAt(metadata, e)>> :
                        e \in {x \in AdEntries(metadata) :
                                 FieldMatches(AdAt(metadata, x), query)}}]_vars

(***************************************************************************)
(* C13.  search_ads with the empty query returns no result.                *)
(***************************************************************************)
C13_EmptyQueryFindsNothing ==
  [][(last'.op = "search_ads" /\ Call_search_ads(<<>>)) => last'.ret = {}]_vars

\* the ads of m that have a file_path that is not empty
AdsWithFile(m) ==
  {e \in AdEntries(m) :
     "file_path" \in DOMAIN AdAt(m, e) /\ AdAt(m, e)["file_path"] # <<>>}

(***************************************************************************)
(* C14.  get_statistics gives total_ad_sets as the number of ad sets,      *)
(* total_ads as the number of ads and as the sum of ads_by_set, and in     *)
(* ads_by_type counts every ad with a file_path that is not empty once,    *)
(* under its category or under other, and no ad without one.               *)
(***************************************************************************)
C14_StatisticsCount ==
  [][(last'.op = "get_statistics" /\ Call_get_statistics) =>
       LET stats == last'.ret
           under(type) ==
             {e \in AdsWithFile(metadata) :
                LET category == get_file_category(AdAt(metadata, e)["file_path"])
                IN IF type = "other"
                   THEN category \notin {"images", "videos", "audio"}
                   ELSE category = type}
       IN /\ stats.total_ad_sets = Cardinality(DOMAIN metadata.ad_sets)
          /\ stats.total_ads = Cardinality(AdEntries(metadata))
          /\ DOMAIN stats.ads_by_set = DOMAIN metadata.ad_sets
          /\ \A s \in DOMAIN metadata.ad_sets :
               stats.ads_by_set[s] = Cardinality(DOMAIN metadata.ad_sets[s].ads)
          /\ stats.total_ads = SumOver(DOMAIN stats.ads_by_set, stats.ads_by_set)
          /\ DOMAIN stats.ads_by_type = {"images", "videos", "audio", "other"}
          /\ \A type \in DOMAIN stats.ads_by_type :
               stats.ads_by_type[type] = Cardinality(under(type))
          /\ SumOver(DOMAIN stats.ads_by_type, stats.ads_by_type)
               = Cardinality(AdsWithFile(metadata))]_vars

\* get_statistics counted a document with ads whose file_path is empty, an ad with an
\* image and an ad with a file of no category
C14_Witness_Counted ==
  /\ last.op = "get_statistics"
  /\ last.ret.total_ads = 5
  /\ last.ret.ads_by_type["images"] = 1
  /\ last.ret.ads_by_type["other"] = 1
  /\ \E e \in AdEntries(metadata) : AdAt(metadata, e)["file_path"] = <<>>

\* the text after the last "." of filename, lower-cased; filename has a "."
HasExtension(filename, ext) ==
  \E i \in 1..Len(filename) :
    /\ filename[i] = "."
    /\ \A j \in (i + 1)..Len(filename) : filename[j] # "."
    /\ ext = lower(SubSeq(filename, i + 1, Len(filename)))

(***************************************************************************)
(* C15.  is_allowed_file is true exactly of the names that have a "." and, *)
(* after the last one, a text that lower-cased is in the allow-list;       *)
(* get_file_category gives the category that holds this text and unknown   *)
(* when there is none: a name without "." is not allowed and is unknown.   *)
(***************************************************************************)
C15_ClassifierNeedsExtension ==
  [][\A filename \in FilenameInputs :
       (last'.op = "is_allowed_file" /\ Call_is_allowed_file(filename)) =>
         /\ last'.ret.allowed <=>
               \E k \in 1..Len(ALL_ALLOWED) : HasExtension(filename, ALL_ALLOWED[k])
         /\ \A c \in DOMAIN ALLOWED_EXTENSIONS :
               last'.ret.category = c <=>
                 \E k \in 1..Len(ALLOWED_EXTENSIONS[c]) :
                   HasExtension(filename, ALLOWED_EXTENSIONS[c][k])
         /\ last'.ret.category = "unknown" <=>
               ~\E k \in 1..Len(ALL_ALLOWED) : HasExtension(filename, ALL_ALLOWED[k])]_vars

\* m has the shape of a document: a campaign with its three fields, and ad
\* sets with theirs
WellFormed(m) ==
  /\ {"campaign", "ad_sets"} \subseteq DOMAIN m
  /\ {"name", "objective", "created_at"} \subseteq DOMAIN m["campaign"]
  /\ \A s \in DOMAIN m["ad_sets"] :
       {"name", "description", "created_at", "ads"} \subseteq DOMAIN m["ad_sets"][s]

\* META_FILE holds the whole text of a document
HoldsDocument(file) == file.kind = "json" /\ WellFormed(json_load(file.doc))

(***************************************************************************)
(* C16.  The load of line 491 does not raise and does not change           *)
(* META_FILE; when META_FILE cannot be read or does not hold a document    *)
(* of the right shape, the document in memory is the default one.          *)
(***************************************************************************)
C16_LoadFallsBackToDefault ==
  [][(Load \/ Load_open_raises) =>
       /\ last'.raised = ""
       /\ disk' = disk
       /\ ~HoldsDocument(disk) => metadata' = get_default_metadata(now)]_vars

(***************************************************************************)
(* C17.  After "Save Campaign" with a write that goes through, and after   *)
(* "Import CSV Data" in either mode with any number of rows, META_FILE     *)
(* holds the document the operation left in memory.                        *)
(***************************************************************************)
C17_MutationsArePersisted ==
  [][/\ \A campaign_name \in CampaignNameInputs,
           campaign_objective \in CampaignObjectiveInputs :
          Save_Campaign(campaign_name, campaign_objective, "") =>
            Persisted(disk', save_campaign(metadata, disk, campaign_name,
                                           campaign_objective, "").metadata)
     /\ \A replace \in BOOLEAN, rows \in RowsInputs, ad_ids \in {<<>>, <<ID_A>>} :
          Import_CSV(replace, rows, ad_ids) =>
            Persisted(disk', import_csv(metadata, replace, rows, ad_ids, now).metadata)]_vars

(***************************************************************************)
(* C18.  A load of META_FILE while a save has opened it and not written it *)
(* whole, or after such a save was cut short, gives the document the file  *)
(* held before that save or the document that save was writing.            *)
(***************************************************************************)
C18_LoadSeesWholeDocuments ==
  [][/\ (Load /\ disk.kind = "partial") =>
          metadata' \in {json_load(disk.before), json_load(disk.doc)}
     /\ (Peer_Load /\ disk.kind = "partial") =>
          peer' \in {json_load(disk.before), json_load(disk.doc)}]_vars

(***************************************************************************)
(* C19.  A save of one of two sessions leaves in META_FILE the document of *)
(* that session, whole: the ad sets and the campaign it had in memory with *)
(* its own change, and nothing of what the other session saved before.     *)
(***************************************************************************)
C19_LastSaveWins ==
  [][/\ \A description \in DescriptionInputs :
          (Peer_create_ad_set(google_ads, description) /\ peer' # peer) =>
            /\ Persisted(disk', peer')
            /\ DOMAIN json_load(disk'.doc).ad_sets = DOMAIN peer.ad_sets \cup {google_ads}
            /\ \A s \in DOMAIN peer.ad_sets : json_load(disk'.doc).ad_sets[s] = peer.ad_sets[s]
            /\ json_load(disk'.doc).campaign = peer.campaign
     /\ \A campaign_name \in CampaignNameInputs,
           campaign_objective \in CampaignObjectiveInputs :
          Save_Campaign(campaign_name, campaign_objective, "") =>
            /\ Persisted(disk', metadata')
            /\ json_load(disk'.doc).ad_sets = metadata.ad_sets
            /\ json_load(disk'.doc).campaign["name"] = campaign_name]_vars

\* both sessions loaded the default document, the second one made an ad set
\* and saved, the first one saved its campaign after that: META_FILE holds the
\* document of the first session, without the ad set of the second
C19_Witness_FirstSaveLost ==
  /\ last.op = "save_campaign"
  /\ last.path = 516
  /\ Persisted(disk, metadata)
  /\ metadata.campaign["name"] = FALL_SALE
  /\ DOMAIN metadata.ad_sets = DOMAIN get_default_metadata(0).ad_sets
  /\ google_ads \in DOMAIN peer.ad_sets
  /\ google_ads \notin DOMAIN json_load(disk.doc).ad_sets

MediaEntriesFor(m, fs, name) ==
  Cardinality({e \in AdEntries(m) :
                 /\ "file_path" \in DOMAIN AdAt(m, e)
                 /\ AdAt(m, e)["file_path"] \notin {<<>>, None}
                 /\ AdAt(m, e)["file_path"] \in fs
                 /\ <<"m","e","d","i","a","/">> \o e[1] \o <<"/">>
                      \o PathName(AdAt(m, e)["file_path"]) = name})

(***************************************************************************)
(* C21: the exported archive has exactly one entry named                   *)
(* campaign_metadata.json, which holds the document, and exactly one entry *)
(* media/<ad_set_name>/<filename> for each ad whose file_path is not empty *)
(* and names a file that exists; the other ads add no entry and raise      *)
(* nothing; the export changes neither the document, META_FILE nor the     *)
(* media files.                                                            *)
(***************************************************************************)
C21_ExportArchive ==
  [][(last'.op = "export_campaign_zip" /\ Create_Full_Backup) =>
       LET zip == last'.ret.entries IN
       /\ last'.raised = ""
       /\ CAMPAIGN_METADATA_JSON \in DOMAIN zip
       /\ zip[CAMPAIGN_METADATA_JSON] = 1
       /\ json_load(last'.ret.metadata) = metadata
       /\ \A name \in DOMAIN zip \ {CAMPAIGN_METADATA_JSON} :
            zip[name] = MediaEntriesFor(metadata, files, name) /\ zip[name] > 0
       /\ \A e \in AdEntries(metadata) :
            LET name == <<"m","e","d","i","a","/">> \o e[1] \o <<"/">>
                          \o PathName(Get(AdAt(metadata, e), "file_path", <<>>))
            IN IF MediaEntriesFor(metadata, files, name) > 0
               THEN name \in DOMAIN zip
               ELSE name \notin DOMAIN zip
       /\ metadata' = metadata /\ disk' = disk /\ files' = files]_vars

\* a backup was made of a document with the three kinds of ads: one whose
\* file exists, one whose file_path names a file that is gone, and one with
\* an empty file_path
C21_Witness_Exported ==
  /\ last.op = "export_campaign_zip"
  /\ \E e \in AdEntries(metadata) :
       AdAt(metadata, e)["file_path"] # <<>> /\ AdAt(metadata, e)["file_path"] \in files
  /\ \E e \in AdEntries(metadata) :
       AdAt(metadata, e)["file_path"] # <<>> /\ AdAt(metadata, e)["file_path"] \notin files
  /\ \E e \in AdEntries(metadata) : AdAt(metadata, e)["file_path"] = <<>>

(***************************************************************************)
(* C22: an import of a table that lacks one of the columns campaign_name,  *)
(* ad_set_name, ad_name changes nothing, in merge mode and in replace      *)
(* mode: the document in memory (campaign, ad sets, ads) and META_FILE are *)
(* what they were.                                                         *)
(***************************************************************************)
C22_MissingColumnsChangeNothing ==
  [][(last'.op = "import_csv" /\
      \E table \in TableInputs, replace \in BOOLEAN :
        \E ad_ids \in IdsFor(Len(table.rows)) :
          /\ ~({"campaign_name", "ad_set_name", "ad_name"} \subseteq table.columns)
          /\ Upload_Campaign_CSV(table.columns, replace, table.rows, ad_ids))
     => /\ metadata' = metadata
        /\ disk' = disk]_vars

\* a table without one of the columns was refused, when the document was no
\* longer the default one
C22_Witness_Refused ==
  /\ last.op = "import_csv"
  /\ last.path = 826
  /\ IMPORTED \in DOMAIN metadata.ad_sets

\* the ad set names the rows of a table carry
NamedByRows(rows) == {str(rows[i]["ad_set_name"]) : i \in 1..Len(rows)}

\* every ad set of m is in m2 with its fields, and every ad of m is in m2, in
\* its ad set, as it was
TreeKept(m, m2) ==
  \A s \in DOMAIN m.ad_sets :
    /\ s \in DOMAIN m2.ad_sets
    /\ \A k \in DOMAIN m.ad_sets[s] \ {"ads"} :
         k \in DOMAIN m2.ad_sets[s] /\ m2.ad_sets[s][k] = m.ad_sets[s][k]
    /\ \A i \in DOMAIN m.ad_sets[s].ads :
         /\ i \in DOMAIN m2.ad_sets[s].ads
         /\ m2.ad_sets[s].ads[i] = m.ad_sets[s].ads[i]

\* what C23 asks of an import of rows into the document m that leaves m2 in
\* memory and file in META_FILE
ImportedAsAsked(m, replace, rows, m2, file) ==
  /\ file.kind = "json"
  /\ replace => DOMAIN json_load(file.doc).ad_sets = NamedByRows(rows)
  /\ ~replace => TreeKept(m, m2) /\ TreeKept(m, json_load(file.doc))
  /\ TotalAds(m2) = (IF replace THEN 0 ELSE TotalAds(m)) + Len(rows)

(***************************************************************************)
(* C23: after an import in replace mode the ad sets of the persisted       *)
(* document are exactly those the rows name (none of the earlier ones is   *)
(* left, also with zero rows); after an import in merge mode every ad set  *)
(* and ad that was there is still there, unchanged; in both modes every    *)
(* row adds one ad, so the number of ads grows by the number of rows over  *)
(* the tree the import starts from.                                        *)
(***************************************************************************)
C23_ImportModes ==
  [][\A table \in TableInputs, replace \in BOOLEAN :
       \A ad_ids \in IdsFor(Len(table.rows)) :
         (/\ last'.op = "import_csv"
          /\ {"campaign_name", "ad_set_name", "ad_name"} \subseteq table.columns
          /\ Upload_Campaign_CSV(table.columns, replace, table.rows, ad_ids))
         => ImportedAsAsked(metadata, replace, table.rows, metadata', disk')]_vars

\* the name and the set of tags of an ad
NameAndTags(ad) ==
  <<Get(ad, "name", <<>>),
    {Get(ad, "tags", <<>>)[i] : i \in 1..Len(Get(ad, "tags", <<>>))}>>

\* m and m2 have the same ad set names and, in every ad set, as many ads of
\* every name and tag set
SameTree(m, m2) ==
  /\ DOMAIN m.ad_sets = DOMAIN m2.ad_sets
  /\ \A s \in DOMAIN m.ad_sets :
       /\ Cardinality(DOMAIN m.ad_sets[s].ads) = Cardinality(DOMAIN m2.ad_sets[s].ads)
       /\ \A i \in DOMAIN m.ad_sets[s].ads :
            LET p == NameAndTags(m.ad_sets[s].ads[i]) IN
            Cardinality({j \in DOMAIN m.ad_sets[s].ads :
                           NameAndTags(m.ad_sets[s].ads[j]) = p})
              = Cardinality({j \in DOMAIN m2.ad_sets[s].ads :
                               NameAndTags(m2.ad_sets[s].ads[j]) = p})

\* the document with no ad set an exported table is imported into
EmptyDocument(t) ==
  [campaign |-> get_default_metadata(t).campaign, ad_sets |-> EmptyDict]

\* the document an import in merge mode makes of the text csv, from the empty
\* document, with ids that do not collide
ImportOf(csv, t) ==
  import_csv(EmptyDocument(t), FALSE, read_csv(csv).rows,
             SubSeq(DistinctIds, 1, Len(csv.rows)), t).metadata

(***************************************************************************)
(* C24: the table exported from any document, imported in merge mode into  *)
(* an empty document, gives a document with the same ad set names, as many *)
(* ads in every ad set, the same ad names and the same set of tags on      *)
(* every ad; also for documents with ad sets that hold no ad, ads with no  *)
(* tags, and empty descriptions or urls.                                   *)
(***************************************************************************)
C24_TabularRoundTrip ==
  last.op = "export_csv" =>
    /\ last.path = 758
    /\ SameTree(metadata, ImportOf(last.ret, now))

(***************************************************************************)
(* C25: in every state of the document reached by create_ad_set calls and  *)
(* imports of tables, every ad set key is not empty once its whitespace is *)
(* trimmed, and no two ad sets have the same name.                         *)
(***************************************************************************)
C25_AdSetKeys ==
  /\ \A s \in DOMAIN metadata.ad_sets : strip(s) # <<>>
  /\ \A s, s2 \in DOMAIN metadata.ad_sets :
       metadata.ad_sets[s]["name"] = metadata.ad_sets[s2]["name"] => s = s2

\* the created_at values of the ads kept at their place, of the ads moved to
\* another ad set, and of the ad sets kept are the same in m and m2
CreatedAtKept(m, m2) ==
  /\ \A s \in DOMAIN m.ad_sets \cap DOMAIN m2.ad_sets :
       m2.ad_sets[s]["created_at"] = m.ad_sets[s]["created_at"]
  /\ \A e \in AdEntries(m) \cap AdEntries(m2) :
       AdAt(m2, e)["created_at"] = AdAt(m, e)["created_at"]
  /\ \A e \in AdEntries(m) \ AdEntries(m2) : \A e2 \in AdEntries(m2) \ AdEntries(m) :
       e2[2] = e[2] => AdAt(m2, e2)["created_at"] = AdAt(m, e)["created_at"]

(***************************************************************************)
(* C26: the created_at of an ad or of an ad set never changes while the ad *)
(* or ad set exists, whatever update_ad (with any fields), move_ad, bulk   *)
(* add tags, create and delete operations are applied to the document.     *)
(***************************************************************************)
C26_CreatedAtIsImmutable ==
  [][CreatedAtKept(metadata, metadata')]_vars

\* no string is twice in the list xs
NoDuplicates(xs) == \A i, j \in 1..Len(xs) : xs[i] = xs[j] => i = j

(***************************************************************************)
(* C27: in every state, the tags of every ad hold no string twice (upper   *)
(* and lower case told apart), whether they were set by an upload with     *)
(* default tags, by the edit form, by an imported row or by bulk add tags. *)
(***************************************************************************)
C27_TagsHaveNoDuplicates ==
  \A e \in AdEntries(metadata) : NoDuplicates(Get(AdAt(metadata, e), "tags", <<>>))

(***************************************************************************)
(* C28: in every state, every ad of an ad set is stored under the key that *)
(* is the id field of its record, and every ad set under the key that is   *)
(* its name field, after any sequence of create_ad_set, create_ad,         *)
(* update_ad, move_ad, delete_ad and imports of tables.                    *)
(***************************************************************************)
C28_KeysAreOwnIds ==
  /\ \A s \in DOMAIN metadata.ad_sets :
       "name" \in DOMAIN metadata.ad_sets[s] /\ metadata.ad_sets[s]["name"] = s
  /\ \A e \in AdEntries(metadata) :
       "id" \in DOMAIN AdAt(metadata, e) /\ AdAt(metadata, e)["id"] = e[2]

(***************************************************************************)
(* C29: starting the manager never overwrites a META_FILE that exists: the *)
(* default document is written only when there is no file, and a file that *)
(* exists keeps its content over every start of the manager and every      *)
(* load, of either session, until an operation that changes the document   *)
(* saves.                                                                  *)
(***************************************************************************)
C29_StartKeepsMetaFile ==
  [][((last'.op = "main" /\ (Load \/ Load_open_raises)) \/ Peer_Load) =>
       (disk.kind # "missing" => disk' = disk)]_vars

\* the manager was started, and the document loaded, when META_FILE held a
\* document other than the default one
C29_Witness_Started ==
  /\ last.op = "main"
  /\ last.path = 491
  /\ disk.kind = "json"
  /\ \A t \in 0..MaxTime : disk # save_metadata(get_default_metadata(t))
  /\ metadata = json_load(disk.doc)

\* the ads of m, other than the one at e, that hold the file_path of the ad
\* at e
SharingAds(m, e) ==
  {e2 \in AdEntries(m) \ {e} :
     /\ "file_path" \in DOMAIN AdAt(m, e2)
     /\ AdAt(m, e2)["file_path"] = AdAt(m, e)["file_path"]}

(***************************************************************************)
(* C30, as stated: delete_ad with the cascade flag deletes the file of the *)
(* ad and its thumbnail without a look at the other ads; when two ads hold *)
(* the same non-empty file_path, the cascading delete of one leaves the    *)
(* other in the document with a file_path that names a file that is no     *)
(* longer there.                                                           *)
(***************************************************************************)
C30_SharedFileIsDeleted ==
  [][\A s \in AdSetArgs, i \in AdIdArgs :
       (/\ last'.op = "delete_ad"
        /\ <<s, i>> \in AdEntries(metadata)
        /\ Cascades(AdAt(metadata, <<s, i>>), TRUE)
        /\ Call_delete_ad(s, i, TRUE))
       => \A e2 \in SharingAds(metadata, <<s, i>>) :
            /\ e2 \in AdEntries(metadata')
            /\ AdAt(metadata', e2) = AdAt(metadata, e2)
            /\ AdAt(metadata, e2)["file_path"] \notin files']_vars

(***************************************************************************)
(* C30, amended: delete_ad with the cascade flag unlinks the file of the   *)
(* ad and its thumbnail without a look at the other ads; when two ads hold *)
(* the same non-empty file_path, the cascading delete of one leaves the    *)
(* other in the document, unchanged, and its file_path names a file that   *)
(* is no longer there unless the unlink of that file raised (the exception *)
(* is caught and reported, and the file stays).                            *)
(***************************************************************************)
C30_SharedFileIsDeletedUnlessUnlinkRaises ==
  [][\A s \in AdSetArgs, i \in AdIdArgs :
       \A unlink_raises \in UnlinkOutcomes(metadata, files, s, i, TRUE) :
         LET r == delete_ad(metadata, files, s, i, TRUE, unlink_raises) IN
         (/\ last'.op = "delete_ad"
          /\ <<s, i>> \in AdEntries(metadata)
          /\ Cascades(AdAt(metadata, <<s, i>>), TRUE)
          /\ metadata' = r.metadata
          /\ files' = r.files
          /\ disk' = save_metadata(r.metadata))
         => \A e2 \in SharingAds(metadata, <<s, i>>) :
              /\ e2 \in AdEntries(metadata')
              /\ AdAt(metadata', e2) = AdAt(metadata, e2)
              /\ IF unlink_raises = "file"
                 THEN AdAt(metadata, e2)["file_path"] \in files'
                 ELSE AdAt(metadata, e2)["file_path"] \notin files']_vars

\* an ad was deleted with its file, and an ad that is left holds the path of
\* an uploaded file that is gone
C30_Witness_Dangling ==
  /\ last.op = "delete_ad"
  /\ last.path = 262
  /\ \E e \in AdEntries(metadata) :
       /\ AdAt(metadata, e)["file_path"] \in UploadedPaths
       /\ AdAt(metadata, e)["file_path"] \notin files
=============================================================================
